---- MODULE Spec2Model ----
(***************************************************************************)
(* Model of the bookmark enrichment pipeline of AI-bookmark-manager:       *)
(*   src/App.tsx                   the record store, the import run and    *)
(*                                 the user's handlers (React component)   *)
(*   src/services/geminiService.ts generateBookmarksBatch, the enrichment  *)
(*                                 client with its retry loop              *)
(*   src/components/UrlInput.tsx   the submit button that starts a run     *)
(*   src/unnamed/part_000          BookmarkItem: which buttons a record    *)
(*                                 offers in which status                  *)
(*                                                                         *)
(* JavaScript runs one task at a time: a handler runs without interruption *)
(* up to its next await on a timer or on the network, so every action      *)
(* below is one such uninterrupted stretch.  React applies the functional  *)
(* updates setBookmarks(prev => ...) in the order they were queued, so a   *)
(* stretch's updates are composed in program order.                        *)
(*                                                                         *)
(* Strings are modelled as follows.  A URL is a sequence of tokens         *)
(* (scheme, host, path segments, "?", query parameters); lower-casing,     *)
(* substring search and URL parsing work token by token.  Titles,          *)
(* summaries and messages are TLA+ strings; only their length and their    *)
(* equality are used.                                                      *)
(***************************************************************************)
EXTENDS Integers, Sequences, FiniteSets, TLC

(***************************************************************************)
(* Program constants.                                                      *)
(***************************************************************************)
BATCH_SIZE == 5
BATCH_DELAY_MS == 5000
MAX_RETRIES == 2
INITIAL_BACKOFF_MS == 2500
TRANSIENT_DELAY_MS == 1500
WARNING_MIN_SUMMARY == 10

(***************************************************************************)
(* Bounds of the model.                                                    *)
(***************************************************************************)
\* records ever created under Spec
MaxRecords == 2
\* clicks on retry, edit, delete and clear under Spec and SpecChunks
MaxUserOps == 1
\* invocations of the client under SpecClient
MaxInvocations == 1
\* records ever created under SpecChunks: one more than a full chunk
MaxChunkRecords == 6
\* records ever created and clicks under SpecOverlap
MaxOverlapRecords == 2
MaxOverlapOps == 2
\* records ever created and clicks under SpecKeywords
MaxKeywordRecords == 2
MaxKeywordOps == 2
\* records ever created under SpecStorage
MaxStorageRecords == 2
\* invocations of the client under SpecPrefetch
MaxPrefetchInvocations == 1
\* successive applications of stripUtmParams under SpecStrip
MaxStrips == 2
\* records ever created under SpecNormalize
MaxNormalizeRecords == 2
\* records ever created and clicks under SpecEdits
MaxEditRecords == 2
MaxEditOps == 2

(***************************************************************************)
(* URL strings as token sequences.                                         *)
(***************************************************************************)
SchemeToks == {"https://", "HTTPS://"}
HostToks == {"a.example", "A.EXAMPLE", "b.example", "c.example", "d.example",
             "e.example", "f.example", "g.example", "x.com", "youtu.be"}

\* String.prototype.toLowerCase, one token at a time
LowerTok(t) ==
    CASE t = "HTTPS://" -> "https://"
      [] t = "A.EXAMPLE" -> "a.example"
      [] t = "P" -> "p"
      [] OTHER -> t

toLowerCase(s) == [i \in 1..Len(s) |-> LowerTok(s[i])]

\* String.prototype.includes on token sequences: sub occurs contiguously in s
includes(s, sub) ==
    \E k \in 0..(Len(s) - Len(sub)) :
        \A i \in 1..Len(sub) : s[k + i] = sub[i]

\* tokens in which the characters "utm_" occur
TokHasUtm(t) == t \in {"utm_source=x", "utm_medium=y", "utm_page", "k=utm_v"}
\* query parameters whose key starts with "utm_"
KeyStartsWithUtm(t) == t \in {"utm_source=x", "utm_medium=y"}

\* urlString.includes('utm_')
includesUtm(s) == \E i \in 1..Len(s) : TokHasUtm(s[i])

\* new URL(s) succeeds: an absolute URL with a scheme and a host
CanParse(s) == Len(s) >= 2 /\ s[1] \in SchemeToks /\ s[2] \in HostToks

\* position of the "?" token, or Len(s) + 1 when there is no query
QueryStart(s) ==
    IF \E i \in 1..Len(s) : s[i] = "?"
    THEN CHOOSE i \in 1..Len(s) : s[i] = "?" /\ \A j \in 1..(i - 1) : s[j] # "?"
    ELSE Len(s) + 1

PathOf(s) == SubSeq(s, 3, QueryStart(s) - 1)
ParamsOf(s) == SubSeq(s, QueryStart(s) + 1, Len(s))

\* the serializer of URLSearchParams writes every pair as key=value
CanonParam(t) == IF t = "k" THEN "k=" ELSE t

\* URL.prototype.toString: scheme and host in lower case, an empty path
\* becomes "/", the query as given
Href(s, query) ==
    <<LowerTok(s[1]), LowerTok(s[2])>>
        \o (IF PathOf(s) = <<>> THEN <<"/">> ELSE PathOf(s))
        \o query

\* a stripUtmParams that deletes the first tracking key it finds only
stripUtmParamsFirstKey(urlString) ==
    IF urlString = <<>> \/ ~includesUtm(urlString) THEN urlString
    ELSE IF ~CanParse(urlString) THEN urlString
    ELSE LET params == ParamsOf(urlString)
             keysToDelete == {i \in 1..Len(params) : KeyStartsWithUtm(params[i])}
             first == CHOOSE i \in keysToDelete : \A j \in keysToDelete : i <= j
             kept == [i \in 1..(Len(params) - 1) |->
                        IF i < first THEN params[i] ELSE params[i + 1]]
             keptCanon == [i \in 1..Len(kept) |-> CanonParam(kept[i])]
         IN IF keysToDelete = {}
            THEN Href(urlString, SubSeq(urlString, QueryStart(urlString), Len(urlString)))
            ELSE Href(urlString, IF kept = <<>> THEN <<>> ELSE <<"?">> \o keptCanon)

stripUtmParams(urlString) ==
    IF urlString = <<>> \/ ~includesUtm(urlString) THEN urlString
    ELSE IF ~CanParse(urlString) THEN urlString
    ELSE LET params == ParamsOf(urlString)
             keysToDelete == {i \in 1..Len(params) : KeyStartsWithUtm(params[i])}
             kept == SelectSeq(params, LAMBDA t : ~KeyStartsWithUtm(t))
             keptCanon == [i \in 1..Len(kept) |-> CanonParam(kept[i])]
         IN IF keysToDelete = {}
            THEN Href(urlString, SubSeq(urlString, QueryStart(urlString), Len(urlString)))
            ELSE Href(urlString, IF kept = <<>> THEN <<>> ELSE <<"?">> \o keptCanon)


(***************************************************************************)
(* The enrichment client: generateBookmarksBatch.                          *)
(***************************************************************************)
\* messages of the errors the generative call can raise
MsgKeyInvalid == "API key not valid. Please pass a valid API key."
MsgNotFound == "404 Requested entity was not found."
MsgExhausted == "RESOURCE_EXHAUSTED: quota exceeded"
MsgNetwork == "Failed to fetch"
\* messages of the errors generateBookmarksBatch raises itself
MsgNoKey == "API_KEY environment variable is not set."
MsgKeyExpired == "API Key invalid or expired."
MsgSafety == "Batch blocked by safety filters."
MsgEmpty == "Empty AI response received."
MsgBadJson == "Invalid JSON format in AI response."
MsgLoopEnd == "Batch processing failed."

\* message.includes(needle) for the three needles the catch block looks for
MsgIncludes(message, needle) ==
    CASE needle = "API key not valid" -> message = MsgKeyInvalid
      [] needle = "404" -> message = MsgNotFound
      [] needle = "RESOURCE_EXHAUSTED" -> message = MsgExhausted
      [] OTHER -> FALSE

\* error objects: name distinguishes ApiKeyError (instanceof), status is the
\* HTTP status the SDK attaches (0 when it attaches none)
ApiKeyError(message) == [name |-> "ApiKeyError", status |-> 0, message |-> message]
Error(message) == [name |-> "Error", status |-> 0, message |-> message]
SdkError(status, message) == [name |-> "ApiError", status |-> status, message |-> message]

ErrKeyInvalid == SdkError(400, MsgKeyInvalid)
ErrNotFound == SdkError(404, MsgNotFound)
ErrRateLimit == SdkError(429, MsgExhausted)
ErrRateLimitNoStatus == SdkError(0, MsgExhausted)
ErrAuthAndRate == SdkError(429, MsgKeyInvalid)
ErrNetwork == SdkError(0, MsgNetwork)

\* what one call of ai.models.generateContent can come back with:
\*   "throws"   the call rejects with error
\*   "empty"    no response text (finishReason as given)
\*   "badjson"  response text that JSON.parse rejects
\*   "notarray" response text that parses to something that is no array
\*   "array"    response text that parses to the array items
Throws(e) == [kind |-> "throws", error |-> e, finishReason |-> "STOP", items |-> <<>>]
EmptyText(reason) == [kind |-> "empty", error |-> Error(""), finishReason |-> reason, items |-> <<>>]
BadJson == [kind |-> "badjson", error |-> Error(""), finishReason |-> "STOP", items |-> <<>>]
NotArray == [kind |-> "notarray", error |-> Error(""), finishReason |-> "STOP", items |-> <<>>]
ArrayOf(items) == [kind |-> "array", error |-> Error(""), finishReason |-> "STOP", items |-> items]

\* an object of the response array; url <<>> stands for a missing url
Item(url, title, summary, keywords, publicationDate) ==
    [url |-> url, title |-> title, summary |-> summary, keywords |-> keywords,
     publicationDate |-> publicationDate]

SummaryFallback == "Summary could not be generated."
NoDate == "null"

\* new Date(p): valid with a year after 1970, then toISOString(); else null
ValidDate(p) ==
    CASE p = "2024-05-01" -> "2024-05-01T00:00:00.000Z"
      [] p = "1969-07-20" -> NoDate
      [] p = "not a date" -> NoDate
      [] OTHER -> NoDate

\* originalUrl.split('/')[2] || "Untitled"
TitleFallback(originalUrl) ==
    IF Len(originalUrl) >= 2 /\ originalUrl[1] \in SchemeToks
    THEN originalUrl[2] ELSE "Untitled"

\* the predicate of results.find(...)
ItemMatches(r, originalUrl) ==
    /\ r.url # <<>>
    /\ \/ toLowerCase(r.url) = toLowerCase(originalUrl)
       \/ includes(toLowerCase(originalUrl), toLowerCase(r.url))

\* results.find(...): index of the first matching object, 0 for undefined
FindItem(results, originalUrl) ==
    IF \E i \in 1..Len(results) : ItemMatches(results[i], originalUrl)
    THEN CHOOSE i \in 1..Len(results) :
             /\ ItemMatches(results[i], originalUrl)
             /\ \A j \in 1..(i - 1) : ~ItemMatches(results[j], originalUrl)
    ELSE 0

\* the object built for one input URL
MapOne(results, originalUrl) ==
    LET f == FindItem(results, originalUrl)
    IN  [url |-> originalUrl,
         title |-> IF f # 0 /\ results[f].title # "" THEN results[f].title
                   ELSE TitleFallback(originalUrl),
         summary |-> IF f # 0 /\ results[f].summary # "" THEN results[f].summary
                     ELSE SummaryFallback,
         keywords |-> IF f # 0 THEN results[f].keywords ELSE <<>>,
         publicationDate |-> IF f # 0 THEN ValidDate(results[f].publicationDate)
                             ELSE NoDate]

\* a mapping that keeps only the URLs the response answered
MapResultsFoundOnly(urls, results) ==
    SelectSeq([i \in 1..Len(urls) |-> MapOne(results, urls[i])],
              LAMBDA m : FindItem(results, m.url) # 0)

\* urls.map(originalUrl => ...)
MapResults(urls, results) == [i \in 1..Len(urls) |-> MapOne(results, urls[i])]

\* INITIAL_BACKOFF_MS * Math.pow(2.5, attempt)
Pow(b, n) == IF n = 0 THEN 1 ELSE IF n = 1 THEN b ELSE IF n = 2 THEN b * b ELSE b * b * b
\* a wait that is the same before every attempt
RateLimitWaitFlat(attempt) == INITIAL_BACKOFF_MS

RateLimitWait(attempt) == (INITIAL_BACKOFF_MS * Pow(5, attempt)) \div Pow(2, attempt)

\* the error raised inside the try block for a response, Error("") for none
RaisedInTry(outcome) ==
    CASE outcome.kind = "throws" -> outcome.error
      [] outcome.kind = "empty" ->
            IF outcome.finishReason = "SAFETY" THEN Error(MsgSafety) ELSE Error(MsgEmpty)
      [] outcome.kind = "badjson" -> Error(MsgBadJson)
      [] outcome.kind = "notarray" -> Error(MsgBadJson)
      [] OTHER -> Error("")

IsAuthError(error) ==
    MsgIncludes(error.message, "API key not valid") \/ MsgIncludes(error.message, "404")

IsRateLimit(error) ==
    error.status = 429 \/ MsgIncludes(error.message, "RESOURCE_EXHAUSTED")

\* A call in flight is [urls, attempt, pc, wait]: pc "gen" while the
\* generative call of this attempt is outstanding, "backoff" during the
\* delay before the next attempt.  A finished call has pc "returned" (with
\* results) or "thrown" (with error).
\* pc "prefetch" while the context fetches of Promise.all are outstanding;
\* fetched holds what each of them met, contexts what the prefetch yielded.
InFlight(urls, attempt, pc, wait) ==
    [urls |-> urls, attempt |-> attempt, pc |-> pc, wait |-> wait,
     results |-> <<>>, error |-> Error(""),
     xApiKey |-> FALSE, proxyUrl |-> TRUE, fetched |-> <<>>, contexts |-> <<>>]
Returned(c, results) == [c EXCEPT !.pc = "returned", !.results = results]
Thrown(c, error) == [c EXCEPT !.pc = "thrown", !.error = error]

\* What a fetch and the reading of its body can meet: the fetch rejects
\* (network, CORS, abort on a timeout), the status is not a success, the
\* body cannot be parsed, the body parses without the member looked for,
\* or the body is as expected.  "none" stands for a fetch not made.
FetchFailures == {"rejects", "status", "malformed", "incomplete"}
FetchOutcomes == FetchFailures \cup {"ok"}
NoFetch == [api |-> "none", oembed |-> "none", proxy |-> "none"]

Null == "null"
\* a rejection that leaves the fetcher
Raise == "raise"
TweetViaApi == "Tweet content"
TweetViaOEmbed == "Tweet content (via oEmbed)"
YouTubeDetails == "YouTube Video Details"

\* url.includes('twitter.com') || url.includes('x.com')
LooksLikeTweet(url) == \E i \in 1..Len(url) : url[i] = "x.com"
\* url.includes('youtube.com') || url.includes('youtu.be')
LooksLikeYouTube(url) == \E i \in 1..Len(url) : url[i] = "youtu.be"
\* the status pattern of fetchTweetContext matches
tweetIdMatch(url) == includes(url, <<"x.com", "/user/status/1">>)
\* the pattern of fetchYouTubeContext yields an id of eleven characters
videoId(url) == includes(url, <<"youtu.be", "/abcdefghijk">>)

\* a fetchTweetContext whose first fetch is outside any try block
fetchTweetContextUncaught(url, apiKey, f) ==
    IF ~tweetIdMatch(url) THEN Null
    ELSE IF apiKey /\ f.api = "ok" THEN TweetViaApi
    ELSE IF apiKey /\ f.api = "rejects" THEN Raise
    ELSE IF f.oembed = "ok" THEN TweetViaOEmbed
    ELSE Null

\* f.api is consulted only with a key, f.oembed only when the API gave
\* nothing; every failure of either is caught or falls through
fetchTweetContext(url, apiKey, f) ==
    IF ~tweetIdMatch(url) THEN Null
    ELSE IF apiKey /\ f.api = "ok" THEN TweetViaApi
    ELSE IF f.oembed = "ok" THEN TweetViaOEmbed
    ELSE Null

fetchYouTubeContext(url, proxyUrl, f) ==
    IF ~videoId(url) THEN Null
    ELSE IF proxyUrl /\ f.proxy = "ok" THEN YouTubeDetails
    ELSE Null

\* the callback of urls.map in the prefetch
ContextOf(url, xApiKey, proxyUrl, f) ==
    IF LooksLikeTweet(url) THEN fetchTweetContext(url, xApiKey, f)
    ELSE IF LooksLikeYouTube(url) THEN fetchYouTubeContext(url, proxyUrl, f)
    ELSE Null

\* the fetches the prefetch makes for one URL
FetchesOf(url, xApiKey, proxyUrl) ==
    IF LooksLikeTweet(url)
    THEN IF tweetIdMatch(url)
         THEN {f \in [api : FetchOutcomes \cup {"none"},
                       oembed : FetchOutcomes \cup {"none"}, proxy : {"none"}] :
                    /\ (f.api = "none") = ~xApiKey
                    /\ (f.oembed = "none") = (xApiKey /\ f.api = "ok")}
         ELSE {NoFetch}
    ELSE IF LooksLikeYouTube(url) /\ videoId(url) /\ proxyUrl
         THEN [api : {"none"}, oembed : {"none"}, proxy : FetchOutcomes]
    ELSE {NoFetch}

\* some URL of the batch makes a fetch
Prefetches(urls, xApiKey, proxyUrl) ==
    \E i \in 1..Len(urls) : FetchesOf(urls[i], xApiKey, proxyUrl) # {NoFetch}

\* await Promise.all(...) settles: it rejects when one callback rejects,
\* and the rejection leaves generateBookmarksBatch before its loop
ClientPrefetched(c, fetched) ==
    LET contexts == [i \in 1..Len(c.urls) |->
                        ContextOf(c.urls[i], c.xApiKey, c.proxyUrl, fetched[i])]
        d == [c EXCEPT !.fetched = fetched, !.contexts = contexts]
    IN  IF \E i \in 1..Len(contexts) : contexts[i] = Raise
        THEN Thrown(d, Error("Failed to fetch"))
        ELSE [d EXCEPT !.pc = "gen"]

\* generateBookmarksBatch up to its first await on the network
ClientStartWith(urls, apiKeySet, xApiKey, proxyUrl) ==
    LET c == [InFlight(urls, 0, "gen", 0) EXCEPT !.xApiKey = xApiKey,
                                                  !.proxyUrl = proxyUrl]
    IN  IF ~apiKeySet THEN Thrown(c, ApiKeyError(MsgNoKey))
        ELSE IF urls = <<>> THEN Returned(c, <<>>)
        ELSE IF Prefetches(urls, xApiKey, proxyUrl) THEN [c EXCEPT !.pc = "prefetch"]
        ELSE ClientPrefetched(c, [i \in 1..Len(urls) |-> NoFetch])

\* the call as App makes it: no X key entered, the default relay
ClientStart(urls, apiKeySet) == ClientStartWith(urls, apiKeySet, FALSE, TRUE)

\* a catch block whose rate-limit branch does not look at the attempt number
ClientAttemptNoCeiling(c, outcome) ==
    IF outcome.kind = "array"
    THEN Returned(c, MapResults(c.urls, outcome.items))
    ELSE LET error == RaisedInTry(outcome)
         IN  IF IsAuthError(error) THEN Thrown(c, ApiKeyError(MsgKeyExpired))
             ELSE IF IsRateLimit(error)
                  THEN [c EXCEPT !.pc = "backoff", !.wait = RateLimitWait(c.attempt)]
             ELSE IF c.attempt = MAX_RETRIES THEN Thrown(c, error)
             ELSE [c EXCEPT !.pc = "backoff", !.wait = TRANSIENT_DELAY_MS]

\* a catch block that looks for the rate limit before the credential
ClientAttemptRateFirst(c, outcome) ==
    IF outcome.kind = "array"
    THEN Returned(c, MapResults(c.urls, outcome.items))
    ELSE LET error == RaisedInTry(outcome)
         IN  IF IsRateLimit(error) /\ c.attempt < MAX_RETRIES
                  THEN [c EXCEPT !.pc = "backoff", !.wait = RateLimitWait(c.attempt)]
             ELSE IF IsAuthError(error) THEN Thrown(c, ApiKeyError(MsgKeyExpired))
             ELSE IF c.attempt = MAX_RETRIES THEN Thrown(c, error)
             ELSE [c EXCEPT !.pc = "backoff", !.wait = TRANSIENT_DELAY_MS]

\* a catch block that gives up on a response it cannot read
ClientAttemptFormatFatal(c, outcome) ==
    IF outcome.kind = "array"
    THEN Returned(c, MapResults(c.urls, outcome.items))
    ELSE LET error == RaisedInTry(outcome)
         IN  IF IsAuthError(error) THEN Thrown(c, ApiKeyError(MsgKeyExpired))
             ELSE IF outcome.kind \in {"badjson", "notarray"} THEN Thrown(c, error)
             ELSE IF IsRateLimit(error) /\ c.attempt < MAX_RETRIES
                  THEN [c EXCEPT !.pc = "backoff", !.wait = RateLimitWait(c.attempt)]
             ELSE IF c.attempt = MAX_RETRIES THEN Thrown(c, error)
             ELSE [c EXCEPT !.pc = "backoff", !.wait = TRANSIENT_DELAY_MS]

\* one pass of the loop body from the completion of the generative call:
\* the rest of the try block, or the catch block
ClientAttempt(c, outcome) ==
    IF outcome.kind = "array"
    THEN Returned(c, MapResults(c.urls, outcome.items))
    ELSE LET error == RaisedInTry(outcome)
         IN  IF IsAuthError(error) THEN Thrown(c, ApiKeyError(MsgKeyExpired))
             ELSE IF IsRateLimit(error) /\ c.attempt < MAX_RETRIES
                  THEN [c EXCEPT !.pc = "backoff", !.wait = RateLimitWait(c.attempt)]
             ELSE IF c.attempt = MAX_RETRIES THEN Thrown(c, error)
             ELSE [c EXCEPT !.pc = "backoff", !.wait = TRANSIENT_DELAY_MS]

\* the delay is over: attempt++ and the next generative call goes out
ClientResume(c) ==
    IF c.attempt + 1 <= MAX_RETRIES
    THEN [c EXCEPT !.attempt = c.attempt + 1, !.pc = "gen", !.wait = 0]
    ELSE Thrown(c, Error(MsgLoopEnd))


(***************************************************************************)
(* The record store and its handlers: App.                                 *)
(***************************************************************************)
VARIABLES
    bookmarks,   \* useState<Bookmark[]>: the record collection, in order
    isLoading,   \* useState<boolean>: an import run is active
    error,       \* useState<string | null>: the run-level banner
    apiKeySet,   \* process.env.API_KEY is set (fixed for the session)
    nextId,      \* the next fresh id of uuidv4()
    run,         \* the import run: handleProcessUrls across its awaits
    retries,     \* the handleRetryBookmark invocations awaiting their call
    userOps,     \* clicks on retry, edit, delete and clear so far
    selectedIds, \* useState<Set<string>>: the ids ticked for a bulk action
    stored,      \* localStorage under AI_BOOKMARKS_STORAGE_KEY
    phase,       \* name "boot" before the mount effects, "loading" between
                 \* them and the render of what they loaded (loaded, the
                 \* queued setBookmarks), "ready" afterwards
    call,        \* SpecClient: the generateBookmarksBatch invocation observed
    hist,        \* SpecClient: what each of its generative calls came back with
    invocations, \* SpecClient: invocations so far
    urlString,   \* SpecStrip: the string handed to stripUtmParams
    stripped     \* SpecStrip: what each successive application returned

vars == <<bookmarks, isLoading, error, apiKeySet, nextId, run, retries, userOps,
          selectedIds, stored, phase, call, hist, invocations, urlString, stripped>>
appVars == <<bookmarks, isLoading, error, nextId, run, retries, userOps,
             selectedIds, stored, phase>>
clientVars == <<call, hist, invocations>>
stripVars == <<urlString, stripped>>

NoError == "null"
ApiKeyBanner == "API Key Error. Please check your environment configuration."
Now == "now"

Bookmark(id, url, title, summary, keywords, status, createdAt) ==
    [id |-> id, url |-> url, title |-> title, summary |-> summary,
     keywords |-> keywords, status |-> status, createdAt |-> createdAt]

Ids(bs) == {bs[i].id : i \in 1..Len(bs)}
IndexOf(bs, id) == CHOOSE i \in 1..Len(bs) : bs[i].id = id
ById(bs, id) == bs[IndexOf(bs, id)]

\* What localStorage holds under the key: nothing (getItem gives null), the
\* text of a JSON array of records, the text of JSON that is no array, or
\* text that JSON.parse rejects.
NoItem == [kind |-> "null", value |-> <<>>]
ArrayText(bs) == [kind |-> "array", value |-> bs]
ObjectText == [kind |-> "object", value |-> <<>>]
CorruptText == [kind |-> "corrupt", value |-> <<>>]

\* JSON.stringify(bookmarks)
stringify(bs) == ArrayText(bs)

Boot == [name |-> "boot", loaded |-> <<>>]
Loading(bs) == [name |-> "loading", loaded |-> bs]
Ready == [name |-> "ready", loaded |-> <<>>]

\* useEffect(() => localStorage.setItem(KEY, JSON.stringify(bookmarks)), [bookmarks]):
\* runs after the render that follows a stretch which set the collection
PersistEffect ==
    stored' = IF bookmarks' # bookmarks THEN stringify(bookmarks') ELSE stored

\* the loop of handleProcessUrls that builds uniqueBatch
RECURSIVE UniqueBatch(_, _)
UniqueBatch(existingUrls, urlData) ==
    IF urlData = <<>> THEN <<>>
    ELSE LET data == Head(urlData)
             cleaned == stripUtmParams(data.url)
         IN  IF cleaned \notin existingUrls
             THEN <<[data EXCEPT !.url = cleaned]>>
                      \o UniqueBatch(existingUrls \cup {cleaned}, Tail(urlData))
             ELSE UniqueBatch(existingUrls, Tail(urlData))

\* new Set(bookmarks.filter(b => b.status !== 'error').map(b => b.url))
ExistingUrls(bs) == {bs[i].url : i \in {j \in 1..Len(bs) : bs[j].status # "error"}}

\* uniqueBatch.map(data => ({ id: uuidv4(), ... }))
\* records created in a status of their own, ahead of processing
NewEntriesQueued(uniqueBatch, firstId) ==
    [k \in 1..Len(uniqueBatch) |->
        Bookmark(firstId + k - 1, uniqueBatch[k].url, "Queued...", "", <<>>,
                 "queued",
                 IF uniqueBatch[k].addDate # "" THEN uniqueBatch[k].addDate ELSE Now)]

NewEntries(uniqueBatch, firstId) ==
    [k \in 1..Len(uniqueBatch) |->
        Bookmark(firstId + k - 1, uniqueBatch[k].url, "Queued...", "", <<>>,
                 "processing",
                 IF uniqueBatch[k].addDate # "" THEN uniqueBatch[k].addDate ELSE Now)]

\* newEntries.slice(0, i + BATCH_SIZE): every chunk starts over
ChunkFromStart(newEntries, i) ==
    SubSeq(newEntries, 1, IF i + BATCH_SIZE < Len(newEntries)
                          THEN i + BATCH_SIZE ELSE Len(newEntries))

\* newEntries.slice(i, i + BATCH_SIZE), i counted from 0
Chunk(newEntries, i) ==
    SubSeq(newEntries, i + 1, IF i + BATCH_SIZE < Len(newEntries)
                              THEN i + BATCH_SIZE ELSE Len(newEntries))
ChunkIds(newEntries, i) == Ids(Chunk(newEntries, i))
ChunkUrls(newEntries, i) ==
    [k \in 1..Len(Chunk(newEntries, i)) |-> Chunk(newEntries, i)[k].url]

\* prev.map(b => chunk.some(c => c.id === b.id) ? {...b, title: 'Processing batch...'} : b)
MarkChunk(prev, ids) ==
    [k \in 1..Len(prev) |->
        IF prev[k].id \in ids THEN [prev[k] EXCEPT !.title = "Processing batch..."]
        ELSE prev[k]]

\* !res.summary || res.summary.length < 10
IsWarning(summary) == summary = "" \/ Len(summary) < WARNING_MIN_SUMMARY

\* a threshold that only looks for the empty summary
StatusForEmptyOnly(summary) == IF summary = "" THEN "warning" ELSE "done"

StatusFor(summary) == IF IsWarning(summary) THEN "warning" ELSE "done"

\* the record a successful result is merged into
Merge(b, res) ==
    [b EXCEPT !.title = res.title,
              !.summary = res.summary,
              !.keywords = res.keywords,
              !.createdAt = IF res.publicationDate # NoDate
                            THEN res.publicationDate ELSE b.createdAt,
              !.status = StatusFor(res.summary)]

\* a search for the record of a result that looks at the URL alone
FindAnyStatus(next, url) ==
    IF \E k \in 1..Len(next) : next[k].url = url
    THEN CHOOSE k \in 1..Len(next) :
            next[k].url = url /\ \A j \in 1..(k - 1) : next[j].url # url
    ELSE 0

\* next.findIndex(b => b.url === res.url && b.status === 'processing'), 0 for -1
FindProcessing(next, url) ==
    IF \E k \in 1..Len(next) : next[k].url = url /\ next[k].status = "processing"
    THEN CHOOSE k \in 1..Len(next) :
            /\ next[k].url = url /\ next[k].status = "processing"
            /\ \A j \in 1..(k - 1) : ~(next[j].url = url /\ next[j].status = "processing")
    ELSE 0

\* results.forEach(res => ...) of the import run
RECURSIVE ApplyResults(_, _)
ApplyResults(next, results) ==
    IF results = <<>> THEN next
    ELSE LET res == Head(results)
             idx == FindProcessing(next, res.url)
         IN  ApplyResults(IF idx # 0 THEN [next EXCEPT ![idx] = Merge(@, res)] ELSE next,
                          Tail(results))

\* a failure handler that marks whatever is processing
FailChunkAllProcessing(prev, ids, msg) ==
    [k \in 1..Len(prev) |->
        IF prev[k].status = "processing"
        THEN [prev[k] EXCEPT !.title = "Error", !.summary = msg, !.status = "error"]
        ELSE prev[k]]

\* prev.map(b => chunk.some(c => c.id === b.id) ? {...b, title: 'Error', ...} : b)
FailChunk(prev, ids, msg) ==
    [k \in 1..Len(prev) |->
        IF prev[k].id \in ids
        THEN [prev[k] EXCEPT !.title = "Error", !.summary = msg, !.status = "error"]
        ELSE prev[k]]

\* the import run.  pc is "idle" (no run), "call" (awaiting the chunk's
\* generateBookmarksBatch) or "delay" (awaiting the inter-chunk timer).
\* newEntries and i are the run's local variables.  calls counts the
\* invocations of generateBookmarksBatch the run has made, log holds how each
\* finished chunk ended, end is how the run ended; a run that has ended keeps
\* them until the next run starts.
IdleRun ==
    [pc |-> "idle", newEntries |-> <<>>, i |-> 0, call |-> InFlight(<<>>, 0, "gen", 0),
     calls |-> 0, log |-> <<>>, end |-> "none"]

ChunkEnd(kind, message) == [kind |-> kind, message |-> message]


\* the app state a stretch of the run leaves behind
AppState(bs, r, loading, err) ==
    [bookmarks |-> bs, run |-> r, isLoading |-> loading, error |-> err]

RunEnded(r, end, entry) ==
    [r EXCEPT !.pc = "idle", !.end = end, !.log = Append(@, entry), !.call = IdleRun.call]

\* a loop body that waits after every chunk, the last one included
NextChunkDelayAlways(bs, r, entry, loading, err) ==
    AppState(bs, [r EXCEPT !.pc = "delay", !.log = Append(@, entry),
                           !.call = IdleRun.call], loading, err)

\* the end of the loop body: wait before the next chunk, or leave the loop
\* and setIsLoading(false)
NextChunkOrFinish(bs, r, entry, loading, err) ==
    IF r.i + BATCH_SIZE < Len(r.newEntries)
    THEN AppState(bs, [r EXCEPT !.pc = "delay", !.log = Append(@, entry),
                                !.call = IdleRun.call], loading, err)
    ELSE AppState(bs, RunEnded(r, "completed", entry), FALSE, err)

\* a run that handles the auth error like any other failure of the chunk
AbortRunGoesOn(bs, r, loading, err) ==
    NextChunkOrFinish(FailChunk(bs, ChunkIds(r.newEntries, r.i), r.call.error.message), r,
                      ChunkEnd("failed", r.call.error.message), loading, err)

\* catch (e) { if (e instanceof ApiKeyError) { setError; setIsLoading(false); return } }
AbortRun(bs, r, loading, err) ==
    AppState(bs, RunEnded(r, "aborted", ChunkEnd("auth", r.call.error.message)),
             FALSE, ApiKeyBanner)

\* the run resumes from await generateBookmarksBatch(...) with r.call
RunContinue(bs, r, loading, err) ==
    CASE r.call.pc \in {"prefetch", "gen", "backoff"} ->
            AppState(bs, [r EXCEPT !.pc = "call"], loading, err)
      [] r.call.pc = "returned" ->
            NextChunkOrFinish(ApplyResults(bs, r.call.results), r,
                              ChunkEnd("ok", ""), loading, err)
      [] r.call.pc = "thrown" /\ r.call.error.name = "ApiKeyError" ->
            AbortRun(bs, r, loading, err)
      [] OTHER ->
            NextChunkOrFinish(
                FailChunk(bs, ChunkIds(r.newEntries, r.i), r.call.error.message), r,
                ChunkEnd("failed", r.call.error.message), loading, err)

\* the top of the loop body for the chunk at i
StartChunk(bs, r, i, loading, err) ==
    RunContinue(MarkChunk(bs, ChunkIds(r.newEntries, i)),
                [r EXCEPT !.i = i, !.calls = @ + 1,
                          !.call = ClientStart(ChunkUrls(r.newEntries, i), apiKeySet)],
                loading, err)

SetApp(st) ==
    /\ bookmarks' = st.bookmarks
    /\ run' = st.run
    /\ isLoading' = st.isLoading
    /\ error' = st.error

\* UrlInput.handleSubmit -> handleProcessUrls(urlData); the submit button is
\* disabled while isLoading.  cap bounds the ids the model hands out.
ProcessUrls(urlData, cap) ==
    /\ ~isLoading
    /\ urlData # <<>>
    /\ LET uniqueBatch == UniqueBatch(ExistingUrls(bookmarks), urlData)
       IN  IF uniqueBatch = <<>>
           THEN /\ SetApp(AppState(bookmarks, IdleRun, FALSE, NoError))
                /\ nextId' = nextId
           ELSE /\ nextId + Len(uniqueBatch) - 1 <= cap
                /\ LET newEntries == NewEntries(uniqueBatch, nextId)
                   IN  SetApp(StartChunk(bookmarks \o newEntries,
                                         [IdleRun EXCEPT !.newEntries = newEntries],
                                         0, TRUE, NoError))
                /\ nextId' = nextId + Len(uniqueBatch)
    /\ selectedIds' = {}
    /\ PersistEffect
    /\ UNCHANGED <<apiKeySet, retries, userOps, phase, clientVars, stripVars>>

\* the generative call of the run's chunk comes back
RunGenerateResponds(outcome) ==
    /\ run.pc = "call" /\ run.call.pc = "gen"
    /\ SetApp(RunContinue(bookmarks, [run EXCEPT !.call = ClientAttempt(@, outcome)],
                          isLoading, error))
    /\ PersistEffect
    /\ UNCHANGED <<apiKeySet, nextId, retries, userOps, selectedIds, phase, clientVars, stripVars>>

\* the delay before the next attempt of the run's call is over
RunBackoffElapsed ==
    /\ run.pc = "call" /\ run.call.pc = "backoff"
    /\ SetApp(RunContinue(bookmarks, [run EXCEPT !.call = ClientResume(@)],
                          isLoading, error))
    /\ PersistEffect
    /\ UNCHANGED <<apiKeySet, nextId, retries, userOps, selectedIds, phase, clientVars, stripVars>>

\* the inter-chunk timer fires: i += BATCH_SIZE and the next chunk starts
RunDelayElapsed ==
    /\ run.pc = "delay"
    /\ SetApp(StartChunk(bookmarks, run, run.i + BATCH_SIZE, isLoading, error))
    /\ PersistEffect
    /\ UNCHANGED <<apiKeySet, nextId, retries, userOps, selectedIds, phase, clientVars, stripVars>>

(***************************************************************************)
(* handleRetryBookmark.                                                    *)
(***************************************************************************)

\* BookmarkItem renders the retry button unless the record is processing
RetryOffered(b) == b.status # "processing"

\* a retry that re-arms the record as queued
RetryBeginQueued(b) == [b EXCEPT !.status = "queued", !.title = "Retrying..."]

RetryBegin(b) == [b EXCEPT !.status = "processing", !.title = "Retrying..."]

RetryFailure(b, message) == [b EXCEPT !.status = "error", !.summary = message]

\* prev.map(b => b.id === id ? { ...b, status: 'processing', title: 'Retrying...' } : b)
SetRetrying(prev, id) ==
    [k \in 1..Len(prev) |-> IF prev[k].id = id THEN RetryBegin(prev[k]) ELSE prev[k]]

\* prev.map(b => b.id === id ? { ...b, title: res.title, ... } : b)
SetRetryResult(prev, id, res) ==
    [k \in 1..Len(prev) |-> IF prev[k].id = id THEN Merge(prev[k], res) ELSE prev[k]]

\* prev.map(b => b.id === id ? { ...b, status: 'error', summary: e.message } : b)
SetRetryFailure(prev, id, message) ==
    [k \in 1..Len(prev) |-> IF prev[k].id = id THEN RetryFailure(prev[k], message) ELSE prev[k]]

\* the retry resumes from await generateBookmarksBatch([target.url]) with c
RetryContinue(bs, rs, id, c) ==
    CASE c.pc \in {"prefetch", "gen", "backoff"} ->
            [bookmarks |-> bs, retries |-> Append(rs, [id |-> id, call |-> c])]
      [] c.pc = "returned" ->
            [bookmarks |-> SetRetryResult(bs, id, c.results[1]),
             retries |-> rs]
      [] OTHER ->
            [bookmarks |-> SetRetryFailure(bs, id, c.error.message),
             retries |-> rs]

RemoveAt(seq, k) == SubSeq(seq, 1, k - 1) \o SubSeq(seq, k + 1, Len(seq))

\* the handler up to its await (and beyond it when the call ends at once)
handleRetryBookmark(id) ==
    /\ id \in Ids(bookmarks)
    /\ LET target == ById(bookmarks, id)
           st == RetryContinue(SetRetrying(bookmarks, id), retries, id,
                               ClientStart(<<target.url>>, apiKeySet))
       IN  bookmarks' = st.bookmarks /\ retries' = st.retries
    /\ PersistEffect
    /\ UNCHANGED <<isLoading, error, apiKeySet, nextId, run, selectedIds, phase, clientVars, stripVars>>

\* a click on the retry button of a record that offers it
RetryBookmark(id) ==
    /\ userOps < MaxUserOps
    /\ id \in Ids(bookmarks)
    /\ RetryOffered(ById(bookmarks, id))
    /\ handleRetryBookmark(id)
    /\ userOps' = userOps + 1

\* the generative call of the k-th waiting retry comes back
RetryGenerateResponds(k, outcome) ==
    /\ k \in 1..Len(retries)
    /\ retries[k].call.pc = "gen"
    /\ LET st == RetryContinue(bookmarks, RemoveAt(retries, k), retries[k].id,
                               ClientAttempt(retries[k].call, outcome))
       IN  bookmarks' = st.bookmarks /\ retries' = st.retries
    /\ PersistEffect
    /\ UNCHANGED <<isLoading, error, apiKeySet, nextId, run, userOps, selectedIds, phase,
                   clientVars, stripVars>>

RetryBackoffElapsed(k) ==
    /\ k \in 1..Len(retries)
    /\ retries[k].call.pc = "backoff"
    /\ LET st == RetryContinue(bookmarks, RemoveAt(retries, k), retries[k].id,
                               ClientResume(retries[k].call))
       IN  bookmarks' = st.bookmarks /\ retries' = st.retries
    /\ PersistEffect
    /\ UNCHANGED <<isLoading, error, apiKeySet, nextId, run, userOps, selectedIds, phase,
                   clientVars, stripVars>>

(***************************************************************************)
(* The user's edits: handleUpdateBookmark, handleDeleteBookmark,           *)
(* handleClearAll.                                                         *)
(***************************************************************************)
\* prev.map(b => (b.id === updated.id ? updated : b))
UpdateBookmark(prev, updated) ==
    [k \in 1..Len(prev) |-> IF prev[k].id = updated.id THEN updated ELSE prev[k]]

\* BookmarkItem shows the title as an editable field unless processing
TitleEditable(b) == b.status # "processing"
\* and the summary as an editable field unless processing or error
SummaryEditable(b) == b.status \notin {"processing", "error"}

\* handleTitleUpdate: onUpdate({ ...bookmark, title: newTitle })
handleTitleUpdate(id, newTitle) ==
    /\ bookmarks' = UpdateBookmark(bookmarks, [ById(bookmarks, id) EXCEPT !.title = newTitle])
    /\ PersistEffect
    /\ UNCHANGED <<isLoading, error, apiKeySet, nextId, run, retries, selectedIds, phase,
                   clientVars, stripVars>>

\* the title field of a record is edited
TitleUpdate(id, newTitle) ==
    /\ userOps < MaxUserOps
    /\ id \in Ids(bookmarks)
    /\ TitleEditable(ById(bookmarks, id))
    /\ handleTitleUpdate(id, newTitle)
    /\ userOps' = userOps + 1

\* handleSummaryUpdate: onUpdate({ ...bookmark, summary: newSummary })
SummaryUpdate(id, newSummary) ==
    /\ userOps < MaxUserOps
    /\ id \in Ids(bookmarks)
    /\ SummaryEditable(ById(bookmarks, id))
    /\ bookmarks' = UpdateBookmark(bookmarks, [ById(bookmarks, id) EXCEPT !.summary = newSummary])
    /\ userOps' = userOps + 1
    /\ PersistEffect
    /\ UNCHANGED <<isLoading, error, apiKeySet, nextId, run, retries, selectedIds, phase,
                   clientVars, stripVars>>

\* prev.filter(b => b.id !== id)
handleDeleteBookmark(id) ==
    /\ bookmarks' = SelectSeq(bookmarks, LAMBDA b : b.id # id)
    /\ selectedIds' = selectedIds \ {id}
    /\ PersistEffect
    /\ UNCHANGED <<isLoading, error, apiKeySet, nextId, run, retries, phase, clientVars, stripVars>>

\* a click on the delete button of a record
DeleteBookmark(id) ==
    /\ userOps < MaxUserOps
    /\ id \in Ids(bookmarks)
    /\ handleDeleteBookmark(id)
    /\ userOps' = userOps + 1

\* setBookmarks([])
handleClearAll ==
    /\ bookmarks' = <<>>
    /\ selectedIds' = {}
    /\ PersistEffect
    /\ UNCHANGED <<isLoading, error, apiKeySet, nextId, run, retries, phase, clientVars, stripVars>>

\* Header renders the button only when there are records
ClearAll ==
    /\ userOps < MaxUserOps
    /\ bookmarks # <<>>
    /\ handleClearAll
    /\ userOps' = userOps + 1


(***************************************************************************)
(* Inputs.                                                                 *)
(***************************************************************************)
UrlA == <<"https://", "a.example", "/">>
UrlAUpper == <<"HTTPS://", "A.EXAMPLE", "/">>
UrlAUtm == <<"https://", "a.example", "/", "?", "utm_source=x">>
UrlB == <<"https://", "b.example", "/">>
UrlC == <<"https://", "c.example", "/">>
UrlD == <<"https://", "d.example", "/">>
UrlE == <<"https://", "e.example", "/">>
UrlF == <<"https://", "f.example", "/">>
UrlG == <<"https://", "g.example", "/">>

\* an entry of UrlInput's processedUrls; addDate "" for undefined
Entry(url) == [url |-> url, addDate |-> ""]

\* what the user submits under Spec
ImportInputs ==
    { <<Entry(UrlAUtm), Entry(UrlA)>>,
      <<Entry(UrlAUpper)>> }

\* what the user submits under SpecChunks: more than one chunk
ChunkInputs ==
    { <<Entry(UrlB), Entry(UrlC), Entry(UrlD), Entry(UrlE), Entry(UrlF), Entry(UrlG)>> }

LongSummary == "A summary that is long enough."
ShortSummary == "Too short"

\* the response array that answers every URL in order
Echo(urls, summary) ==
    [k \in 1..Len(urls) |-> Item(urls[k], "Title", summary, <<"ai">>, NoDate)]

\* what the generative call comes back with under Spec and SpecChunks
AppOutcomes(urls) ==
    { ArrayOf(Echo(urls, LongSummary)), ArrayOf(Echo(urls, ShortSummary)),
      Throws(ErrKeyInvalid), Throws(ErrRateLimit), BadJson }

EditedTitle == "My title"
EditedSummary == "My own summary of the page."

(***************************************************************************)
(* The client on its own: one generateBookmarksBatch invocation at a time, *)
(* with the outcome of every generative call recorded in hist.             *)
(***************************************************************************)
IdleCall == [InFlight(<<>>, 0, "idle", 0) EXCEPT !.pc = "idle"]

ClientInputs ==
    { <<>>, <<UrlA>>, <<UrlA, UrlB>>, <<UrlAUpper, UrlB, UrlA>> }

ClientArrays(urls) ==
    { Echo(urls, LongSummary),
      \* the first URL left out
      SubSeq(Echo(urls, LongSummary), 2, Len(urls)),
      \* in reverse order
      [k \in 1..Len(urls) |-> Echo(urls, LongSummary)[Len(urls) + 1 - k]],
      \* with an object nobody asked for
      Echo(urls, ShortSummary) \o <<Item(UrlG, "Other", LongSummary, <<>>, "2024-05-01")>>,
      \* every URL answered with an empty summary
      Echo(urls, ""),
      \* every URL answered under a longer URL that contains it
      [k \in 1..Len(urls) |->
          Item(urls[k] \o <<"p">>, "Longer", LongSummary, <<"ml">>, NoDate)],
      \* an object for a part of the first URL ahead of the objects of the URLs
      <<Item(<<"a.example">>, "Part", LongSummary, <<"ml">>, NoDate)>>
          \o Echo(urls, LongSummary),
      \* with an object that has no url
      <<Item(<<>>, "No url", LongSummary, <<"ai">>, "not a date")>>,
      <<>> }

ClientOutcomes(urls) ==
    { ArrayOf(items) : items \in ClientArrays(urls) }
        \cup { Throws(e) : e \in {ErrKeyInvalid, ErrNotFound, ErrRateLimit,
                                  ErrRateLimitNoStatus, ErrAuthAndRate, ErrNetwork} }
        \cup { EmptyText("STOP"), EmptyText("SAFETY"), BadJson, NotArray }

ClientInvoke(urls) ==
    /\ invocations < MaxInvocations
    /\ call.pc \in {"idle", "returned", "thrown"}
    /\ call' = ClientStart(urls, apiKeySet)
    /\ hist' = <<>>
    /\ invocations' = invocations + 1
    /\ UNCHANGED <<apiKeySet, appVars, stripVars>>

ClientGenerateResponds(outcome) ==
    /\ call.pc = "gen"
    /\ call' = ClientAttempt(call, outcome)
    /\ hist' = Append(hist, outcome)
    /\ UNCHANGED <<apiKeySet, invocations, appVars, stripVars>>

ClientBackoffElapsed ==
    /\ call.pc = "backoff"
    /\ call' = ClientResume(call)
    /\ UNCHANGED <<apiKeySet, hist, invocations, appVars, stripVars>>

(***************************************************************************)
(* Specifications.                                                         *)
(***************************************************************************)
Init ==
    /\ bookmarks = <<>>
    /\ isLoading = FALSE
    /\ error = NoError
    /\ apiKeySet \in BOOLEAN
    /\ nextId = 1
    /\ run = IdleRun
    /\ retries = <<>>
    /\ userOps = 0
    /\ selectedIds = {}
    /\ stored = stringify(<<>>)
    /\ phase = Ready
    /\ call = IdleCall
    /\ hist = <<>>
    /\ invocations = 0
    /\ urlString = <<>>
    /\ stripped = <<>>

RunUrls == ChunkUrls(run.newEntries, run.i)

\* The imports of ImportInputs fit in one chunk, so a run under Spec never
\* waits for the inter-chunk timer; RunDelayElapsed is a step of SpecChunks.
Next ==
    \/ \E urlData \in ImportInputs : ProcessUrls(urlData, MaxRecords)
    \/ \E outcome \in AppOutcomes(RunUrls) : RunGenerateResponds(outcome)
    \/ RunBackoffElapsed
    \/ \E id \in Ids(bookmarks) : RetryBookmark(id)
    \/ \E k \in 1..Len(retries) :
          \E outcome \in AppOutcomes(retries[k].call.urls) : RetryGenerateResponds(k, outcome)
    \/ \E k \in 1..Len(retries) : RetryBackoffElapsed(k)
    \/ \E id \in Ids(bookmarks) : TitleUpdate(id, EditedTitle)
    \/ \E id \in Ids(bookmarks) : SummaryUpdate(id, EditedSummary)
    \/ \E id \in Ids(bookmarks) : DeleteBookmark(id)
    \/ ClearAll

Spec == Init /\ [][Next]_vars

NextChunks ==
    \/ \E urlData \in ChunkInputs : ProcessUrls(urlData, MaxChunkRecords)
    \/ \E outcome \in AppOutcomes(RunUrls) : RunGenerateResponds(outcome)
    \/ RunBackoffElapsed
    \/ RunDelayElapsed
    \/ \E id \in Ids(bookmarks) : RetryBookmark(id)
    \/ \E k \in 1..Len(retries) :
          \E outcome \in AppOutcomes(retries[k].call.urls) : RetryGenerateResponds(k, outcome)
    \/ \E k \in 1..Len(retries) : RetryBackoffElapsed(k)
    \/ \E id \in Ids(bookmarks) : DeleteBookmark(id)

SpecChunks == Init /\ [][NextChunks]_vars

(***************************************************************************)
(* Keywords and the selection: BookmarkItem's keyword field, the list's     *)
(* checkboxes and the BulkActionBar.                                       *)
(***************************************************************************)
\* String.prototype.toLowerCase on the keywords of the model
LowerKw(k) == IF k = "AI" THEN "ai" ELSE k
\* String.prototype.trim on what the user types
trim(k) == CASE k = " " -> "" [] k = " ml " -> "ml" [] OTHER -> k

\* currentKeywords.some(k => k.toLowerCase() === keyword.toLowerCase())
HasKeyword(keywords, keyword) ==
    \E i \in 1..Len(keywords) : LowerKw(keywords[i]) = LowerKw(keyword)

\* keywords can be edited where the details are shown: not in processing,
\* and not in error, where the message takes their place
KeywordsEditable(b) == b.status \notin {"processing", "error"}

\* handleKeywordAdd on Enter with typed in the field
KeywordAdd(id, typed, cap) ==
    /\ userOps < cap
    /\ id \in Ids(bookmarks)
    /\ KeywordsEditable(ById(bookmarks, id))
    /\ LET bookmark == ById(bookmarks, id)
           newKeyword == trim(typed)
       IN  bookmarks' =
              IF newKeyword # "" /\ ~HasKeyword(bookmark.keywords, newKeyword)
              THEN UpdateBookmark(bookmarks,
                       [bookmark EXCEPT !.keywords = Append(@, newKeyword)])
              ELSE bookmarks
    /\ userOps' = userOps + 1
    /\ PersistEffect
    /\ UNCHANGED <<isLoading, error, apiKeySet, nextId, run, retries, selectedIds, phase,
                   clientVars, stripVars>>

\* handleKeywordRemove(indexToRemove)
KeywordRemove(id, indexToRemove, cap) ==
    /\ userOps < cap
    /\ id \in Ids(bookmarks)
    /\ KeywordsEditable(ById(bookmarks, id))
    /\ indexToRemove \in 1..Len(ById(bookmarks, id).keywords)
    /\ bookmarks' = UpdateBookmark(bookmarks,
                        [ById(bookmarks, id) EXCEPT
                            !.keywords = RemoveAt(@, indexToRemove)])
    /\ userOps' = userOps + 1
    /\ PersistEffect
    /\ UNCHANGED <<isLoading, error, apiKeySet, nextId, run, retries, selectedIds, phase,
                   clientVars, stripVars>>

\* handleToggleSelect(id)
ToggleSelect(id, cap) ==
    /\ userOps < cap
    /\ id \in Ids(bookmarks)
    /\ selectedIds' = IF id \in selectedIds THEN selectedIds \ {id}
                      ELSE selectedIds \cup {id}
    /\ userOps' = userOps + 1
    /\ UNCHANGED <<bookmarks, isLoading, error, apiKeySet, nextId, run, retries, stored,
                   phase, clientVars, stripVars>>

\* BookmarkList.handleToggleSelectAll -> handleClearSelection or handleSelectAll
ToggleSelectAll(cap) ==
    /\ userOps < cap
    /\ bookmarks # <<>>
    /\ selectedIds' = IF Ids(bookmarks) \subseteq selectedIds THEN {} ELSE Ids(bookmarks)
    /\ userOps' = userOps + 1
    /\ UNCHANGED <<bookmarks, isLoading, error, apiKeySet, nextId, run, retries, stored,
                   phase, clientVars, stripVars>>

\* BulkActionBar.handleSubmit -> handleBulkAddKeyword(keyword.trim()); the bar
\* is rendered while something is selected
BulkAddKeyword(typed, cap) ==
    /\ userOps < cap
    /\ selectedIds # {}
    /\ trim(typed) # ""
    /\ LET keyword == trim(typed)
       IN  bookmarks' =
              [k \in 1..Len(bookmarks) |->
                  IF /\ bookmarks[k].id \in selectedIds
                     /\ ~HasKeyword(bookmarks[k].keywords, keyword)
                  THEN [bookmarks[k] EXCEPT !.keywords = Append(@, keyword)]
                  ELSE bookmarks[k]]
    /\ userOps' = userOps + 1
    /\ PersistEffect
    /\ UNCHANGED <<isLoading, error, apiKeySet, nextId, run, retries, selectedIds, phase,
                   clientVars, stripVars>>

KeywordInputs == { <<Entry(UrlA), Entry(UrlB)>> }
TypedKeywords == {"AI", " ml ", " "}

\* response arrays whose keywords are clean, repeat a keyword in another
\* letter case, or hold an empty string
KeywordOutcomes(urls) ==
    { ArrayOf([k \in 1..Len(urls) |-> Item(urls[k], "Title", LongSummary, kws, NoDate)]) :
        kws \in { <<"ai">>, <<"ai", "AI">>, <<"ml", "">> } }

NextKeywords ==
    \/ \E urlData \in KeywordInputs : ProcessUrls(urlData, MaxKeywordRecords)
    \/ \E outcome \in KeywordOutcomes(RunUrls) : RunGenerateResponds(outcome)
    \/ \E id \in Ids(bookmarks), typed \in TypedKeywords : KeywordAdd(id, typed, MaxKeywordOps)
    \/ \E id \in Ids(bookmarks), i \in 1..2 : KeywordRemove(id, i, MaxKeywordOps)
    \/ \E id \in Ids(bookmarks) : ToggleSelect(id, MaxKeywordOps)
    \/ ToggleSelectAll(MaxKeywordOps)
    \/ \E typed \in TypedKeywords : BulkAddKeyword(typed, MaxKeywordOps)

SpecKeywords == Init /\ [][NextKeywords]_vars

(***************************************************************************)
(* Startup: the mount effects of App, and a reload of the page.            *)
(***************************************************************************)
\* a field that the stored object does not have
UndefinedId == 0
Undefined == "undefined"
UndefinedKeywords == <<"undefined">>

\* Array.isArray(b.keywords) ? b.keywords : []
Sanitize(b) == [b EXCEPT !.keywords = IF @ = UndefinedKeywords THEN <<>> ELSE @]

\* Array.isArray(parsed) ? parsed.map(...) : []
Sanitized(item) ==
    IF item.kind = "array"
    THEN [k \in 1..Len(item.value) |-> Sanitize(item.value[k])]
    ELSE <<>>

\* The two effects of the first render, in the order they are declared: the
\* load effect reads the item and queues setBookmarks(sanitized) (or removes
\* an item it cannot parse), the persist effect writes the collection of
\* that render, which is still the initial [].
Mount ==
    /\ phase = Boot
    /\ stored' = stringify(bookmarks)
    /\ phase' = IF stored.kind \in {"array", "object"} THEN Loading(Sanitized(stored))
                ELSE Ready
    /\ UNCHANGED <<bookmarks, isLoading, error, apiKeySet, nextId, run, retries, userOps,
                   selectedIds, clientVars, stripVars>>

\* the ids uuidv4 has not handed out
FreshFrom(bs, n) ==
    IF \E k \in 1..Len(bs) : bs[k].id >= n
    THEN 1 + (CHOOSE m \in {bs[k].id : k \in 1..Len(bs)} :
                 \A k \in 1..Len(bs) : bs[k].id <= m)
    ELSE n

\* the render of the queued setBookmarks(sanitized), and the persist effect
\* after it
Commit ==
    /\ phase.name = "loading"
    /\ bookmarks' = phase.loaded
    /\ stored' = stringify(bookmarks')
    /\ phase' = Ready
    /\ nextId' = FreshFrom(phase.loaded, nextId)
    /\ UNCHANGED <<isLoading, error, apiKeySet, run, retries, userOps, selectedIds,
                   clientVars, stripVars>>

\* the page is closed or reloaded: the component state is gone, the calls in
\* flight with it; what localStorage holds stays
Reload ==
    /\ phase # Boot
    /\ bookmarks' = <<>>
    /\ isLoading' = FALSE
    /\ error' = NoError
    /\ run' = IdleRun
    /\ retries' = <<>>
    /\ selectedIds' = {}
    /\ phase' = Boot
    /\ UNCHANGED <<apiKeySet, nextId, userOps, stored, clientVars, stripVars>>

StoredDone == Bookmark(1, UrlA, "Title", LongSummary, <<"ai">>, "done", "2024-05-01T00:00:00.000Z")
\* a record of an older version: no id, status, createdAt or keywords
StoredLegacy == Bookmark(UndefinedId, UrlB, "Old title", LongSummary, UndefinedKeywords,
                         Undefined, Undefined)

\* what localStorage holds when the page is opened
StoredInputs ==
    { NoItem, CorruptText, ObjectText, ArrayText(<<>>), ArrayText(<<StoredDone>>),
      ArrayText(<<StoredLegacy>>) }

StorageImports == { <<Entry(UrlC)>> }
StorageOutcomes(urls) == { ArrayOf(Echo(urls, LongSummary)), Throws(ErrKeyInvalid) }

InitStorage ==
    /\ bookmarks = <<>>
    /\ isLoading = FALSE
    /\ error = NoError
    /\ apiKeySet = TRUE
    /\ nextId = 1
    /\ run = IdleRun
    /\ retries = <<>>
    /\ userOps = 0
    /\ selectedIds = {}
    /\ stored \in StoredInputs
    /\ phase = Boot
    /\ call = IdleCall
    /\ hist = <<>>
    /\ invocations = 0
    /\ urlString = <<>>
    /\ stripped = <<>>

\* a click needs the page that the loaded collection was rendered into
NextStorage ==
    \/ Mount
    \/ Commit
    \/ Reload
    \/ phase = Ready /\ \E urlData \in StorageImports : ProcessUrls(urlData, MaxStorageRecords)
    \/ \E outcome \in StorageOutcomes(RunUrls) : RunGenerateResponds(outcome)
    \/ phase = Ready /\ \E id \in Ids(bookmarks) : RetryBookmark(id)
    \/ \E k \in 1..Len(retries) :
          \E outcome \in StorageOutcomes(retries[k].call.urls) : RetryGenerateResponds(k, outcome)
    \/ phase = Ready /\ \E id \in Ids(bookmarks) : TitleUpdate(id, EditedTitle)
    \/ phase = Ready /\ \E id \in Ids(bookmarks) : DeleteBookmark(id)
    \/ phase = Ready /\ ClearAll

SpecStorage == InitStorage /\ [][NextStorage]_vars

\* Calls that overlap: one URL imported again and again, with room for a
\* retry and a delete (or clear) while calls are in flight.
OverlapInputs == { <<Entry(UrlA)>> }

OverlapRetry(id) ==
    /\ userOps < MaxOverlapOps
    /\ id \in Ids(bookmarks)
    /\ RetryOffered(ById(bookmarks, id))
    /\ handleRetryBookmark(id)
    /\ userOps' = userOps + 1

OverlapDelete(id) ==
    /\ userOps < MaxOverlapOps
    /\ id \in Ids(bookmarks)
    /\ handleDeleteBookmark(id)
    /\ userOps' = userOps + 1

OverlapClear ==
    /\ userOps < MaxOverlapOps
    /\ bookmarks # <<>>
    /\ handleClearAll
    /\ userOps' = userOps + 1

NextOverlap ==
    \/ \E urlData \in OverlapInputs : ProcessUrls(urlData, MaxOverlapRecords)
    \/ \E outcome \in AppOutcomes(RunUrls) : RunGenerateResponds(outcome)
    \/ RunBackoffElapsed
    \/ \E id \in Ids(bookmarks) : OverlapRetry(id)
    \/ \E k \in 1..Len(retries) :
          \E outcome \in AppOutcomes(retries[k].call.urls) : RetryGenerateResponds(k, outcome)
    \/ \E k \in 1..Len(retries) : RetryBackoffElapsed(k)
    \/ \E id \in Ids(bookmarks) : OverlapDelete(id)
    \/ OverlapClear

SpecOverlap == Init /\ [][NextOverlap]_vars

(***************************************************************************)
(* The prefetch of generateBookmarksBatch on its own: batches with tweet   *)
(* and video URLs, with and without the X key and the relay, every fetch   *)
(* meeting each of its outcomes.                                           *)
(***************************************************************************)
TweetUrl == <<"https://", "x.com", "/user/status/1">>
\* a URL of the same host that is not a status
ProfileUrl == <<"https://", "x.com", "/user">>
VideoUrl == <<"https://", "youtu.be", "/abcdefghijk">>

PrefetchInputs ==
    { <<TweetUrl>>, <<VideoUrl, UrlA>>, <<TweetUrl, VideoUrl>>, <<ProfileUrl>> }

PrefetchOutcomes(urls) ==
    { ArrayOf(Echo(urls, LongSummary)), Throws(ErrKeyInvalid), Throws(ErrNetwork) }

PrefetchInvoke(urls, xApiKey, proxyUrl) ==
    /\ invocations < MaxPrefetchInvocations
    /\ call.pc \in {"idle", "returned", "thrown"}
    /\ call' = ClientStartWith(urls, apiKeySet, xApiKey, proxyUrl)
    /\ hist' = <<>>
    /\ invocations' = invocations + 1
    /\ UNCHANGED <<apiKeySet, appVars, stripVars>>

\* every context fetch of the batch has settled
PrefetchSettles(fetched) ==
    /\ call.pc = "prefetch"
    /\ call' = ClientPrefetched(call, fetched)
    /\ UNCHANGED <<hist, apiKeySet, invocations, appVars, stripVars>>

\* what the fetches of the first n URLs of the outstanding prefetch can meet
RECURSIVE FetchedUpTo(_, _)
FetchedUpTo(c, n) ==
    IF n = 0 THEN {<<>>}
    ELSE { Append(p, f) : p \in FetchedUpTo(c, n - 1),
                          f \in FetchesOf(c.urls[n], c.xApiKey, c.proxyUrl) }

FetchedOf(c) == FetchedUpTo(c, Len(c.urls))

NextPrefetch ==
    \/ \E urls \in PrefetchInputs, xApiKey \in BOOLEAN, proxyUrl \in BOOLEAN :
            PrefetchInvoke(urls, xApiKey, proxyUrl)
    \/ \E fetched \in FetchedOf(call) : PrefetchSettles(fetched)
    \/ \E outcome \in PrefetchOutcomes(call.urls) : ClientGenerateResponds(outcome)
    \/ ClientBackoffElapsed

SpecPrefetch == Init /\ [][NextPrefetch]_vars

(***************************************************************************)
(* stripUtmParams on its own: applied again and again to a string drawn    *)
(* from parseable and unparseable URLs, in either case, with the tracking  *)
(* prefix in the path, in keys and in a value.                             *)
(***************************************************************************)
\* with a scheme, without one (new URL throws), and the empty string
StripOrigins ==
    { <<"https://", "a.example">>, <<"HTTPS://", "A.EXAMPLE">>, <<"a.example">>, <<>> }
StripPaths == { <<>>, <<"/">>, <<"/", "utm_page">>, <<"/", "P">> }
StripQueries ==
    { <<>>, <<"?", "utm_source=x">>, <<"?", "utm_source=x", "utm_medium=y">>,
      <<"?", "k", "utm_medium=y">>, <<"?", "k=utm_v">>,
      <<"?", "utm_source=x", "k=utm_v">>, <<"?", "k">> }

StripInputs ==
    { o \o p \o q : o \in StripOrigins, p \in StripPaths, q \in StripQueries }

InitStrip ==
    /\ bookmarks = <<>>
    /\ isLoading = FALSE
    /\ error = NoError
    /\ apiKeySet = TRUE
    /\ nextId = 1
    /\ run = IdleRun
    /\ retries = <<>>
    /\ userOps = 0
    /\ selectedIds = {}
    /\ stored = stringify(<<>>)
    /\ phase = Ready
    /\ call = IdleCall
    /\ hist = <<>>
    /\ invocations = 0
    /\ urlString \in StripInputs
    /\ stripped = <<>>

Strip ==
    /\ Len(stripped) < MaxStrips
    /\ stripped' = Append(stripped,
            stripUtmParams(IF stripped = <<>> THEN urlString
                           ELSE stripped[Len(stripped)]))
    /\ UNCHANGED <<urlString, apiKeySet, appVars, clientVars>>

NextStrip == Strip

SpecStrip == InitStrip /\ [][NextStrip]_vars

(***************************************************************************)
(* UrlInput.handleSubmit: the pasted text, line by line.  A line is a      *)
(* sequence of tokens: the pieces of an anchor tag, other tags, list       *)
(* prefixes, blanks, words and the tokens of a URL.                        *)
(***************************************************************************)
Blank == " "
Quote == "\""
\* "<a" in either case
AnchorToks == {"<A", "<a"}
\* white space and href=" in either case
HrefToks == {" HREF=\"", " href=\""}
\* add_date=" in either case, with the white space before it
AddDateToks == {" ADD_DATE=\"", " add_date=\""}
\* a run of digits
DigitToks == {"1700000000", "0", "86399"}
\* tokens that hold the character ">"
GtToks == {">", "<DT>", "<H1>", "</A>"}
\* tokens whose first character is "<"
LtToks == AnchorToks \cup {"<DT>", "<H1>", "</A>"}
\* /^\d+\s*[.)-]\s+/ and /^[-*]\s+/
OrdinalToks == {"3. ", "2) "}
BulletToks == {"- ", "* "}

\* parseInt(digits, 10)
parseInt(t) ==
    CASE t = "1700000000" -> 1700000000
      [] t = "86399" -> 86399
      [] OTHER -> 0

Pad2(n) == IF n < 10 THEN "0" \o ToString(n) ELSE ToString(n)

\* new Date(seconds * 1000).toISOString(): the proleptic Gregorian date of
\* the day, the time of day, and no milliseconds
toISOString(seconds) ==
    LET days == seconds \div 86400
        secs == seconds % 86400
        z == days + 719468
        era == z \div 146097
        doe == z - era * 146097
        yoe == (doe - doe \div 1460 + doe \div 36524 - doe \div 146096) \div 365
        doy == doe - (365 * yoe + yoe \div 4 - yoe \div 100)
        mp == (5 * doy + 2) \div 153
        d == doy - (153 * mp + 2) \div 5 + 1
        m == IF mp < 10 THEN mp + 3 ELSE mp - 9
        y == yoe + era * 400 + (IF m <= 2 THEN 1 ELSE 0)
    IN  ToString(y) \o "-" \o Pad2(m) \o "-" \o Pad2(d) \o "T"
            \o Pad2(secs \div 3600) \o ":" \o Pad2((secs % 3600) \div 60) \o ":"
            \o Pad2(secs % 60) \o ".000Z"

\* String.prototype.trim on a line
RECURSIVE trimStart(_)
trimStart(line) ==
    IF line # <<>> /\ Head(line) = Blank THEN trimStart(Tail(line)) ELSE line
RECURSIVE trimEnd(_)
trimEnd(line) ==
    IF line # <<>> /\ line[Len(line)] = Blank
    THEN trimEnd(SubSeq(line, 1, Len(line) - 1)) ELSE line
trimLine(line) == trimEnd(trimStart(line))

\* the position of the first quote at or after i, 0 when there is none
QuoteFrom(line, i) ==
    IF \E q \in i..Len(line) : line[q] = Quote
    THEN CHOOSE q \in i..Len(line) :
            line[q] = Quote /\ \A r \in i..(q - 1) : line[r] # Quote
    ELSE 0

\* /<a\s+href="([^"]+)"/i matches at i: the quote that closes the href
HrefMatchAt(line, i) ==
    /\ i + 3 <= Len(line)
    /\ line[i] \in AnchorToks
    /\ line[i + 1] \in HrefToks
    /\ QuoteFrom(line, i + 2) > i + 2

\* ...[^>]*add_date="(\d+)" goes on from the quote at q to the digits at j
AddDateMatchAt(line, q, j) ==
    /\ q < j - 1 /\ j + 1 <= Len(line)
    /\ line[j - 1] \in AddDateToks
    /\ line[j] \in DigitToks
    /\ line[j + 1] = Quote
    /\ \A r \in (q + 1)..(j - 2) : line[r] \notin GtToks

\* trimmedLine.match(/<a\s+href="([^"]+)"[^>]*add_date="(\d+)"/i)
bookmarkMatch(line) ==
    LET ms == {m \in (1..Len(line)) \X (1..Len(line)) :
                  /\ HrefMatchAt(line, m[1])
                  /\ AddDateMatchAt(line, QuoteFrom(line, m[1] + 2), m[2])}
    IN  IF ms = {} THEN <<>>
        ELSE LET m == CHOOSE m \in ms : \A n \in ms :
                          m[1] < n[1] \/ (m[1] = n[1] /\ m[2] >= n[2])
             IN  <<SubSeq(line, m[1] + 2, QuoteFrom(line, m[1] + 2) - 1), line[m[2]]>>

\* trimmedLine.match(/<a\s+href="([^"]+)"/i)
hrefMatch(line) ==
    LET is == {i \in 1..Len(line) : HrefMatchAt(line, i)}
    IN  IF is = {} THEN <<>>
        ELSE LET i == CHOOSE i \in is : \A k \in is : i <= k
             IN  <<SubSeq(line, i + 2, QuoteFrom(line, i + 2) - 1)>>

withoutNumber(line) ==
    IF line # <<>> /\ Head(line) \in OrdinalToks THEN Tail(line) ELSE line
withoutBullet(line) ==
    IF line # <<>> /\ Head(line) \in BulletToks THEN Tail(line) ELSE line

\* a callback of text.split('\n').map that looks for the bare anchor first
NormalizeLineHrefFirst(line) ==
    LET trimmedLine == trimLine(line)
        rest == withoutBullet(withoutNumber(trimmedLine))
    IN  IF hrefMatch(trimmedLine) # <<>>
        THEN <<[url |-> hrefMatch(trimmedLine)[1], addDate |-> ""]>>
        ELSE IF bookmarkMatch(trimmedLine) # <<>>
        THEN <<[url |-> bookmarkMatch(trimmedLine)[1],
                addDate |-> toISOString(parseInt(bookmarkMatch(trimmedLine)[2]))]>>
        ELSE IF trimmedLine # <<>> /\ Head(trimmedLine) \in LtToks THEN <<>>
        ELSE IF rest # <<>> THEN <<[url |-> rest, addDate |-> ""]>>
        ELSE <<>>

\* the callback of text.split('\n').map: the entry of a line, if any
NormalizeLine(line) ==
    LET trimmedLine == trimLine(line)
        rest == withoutBullet(withoutNumber(trimmedLine))
    IN  IF bookmarkMatch(trimmedLine) # <<>>
        THEN <<[url |-> bookmarkMatch(trimmedLine)[1],
                addDate |-> toISOString(parseInt(bookmarkMatch(trimmedLine)[2]))]>>
        ELSE IF hrefMatch(trimmedLine) # <<>>
        THEN <<[url |-> hrefMatch(trimmedLine)[1], addDate |-> ""]>>
        ELSE IF trimmedLine # <<>> /\ Head(trimmedLine) \in LtToks THEN <<>>
        ELSE IF rest # <<>> THEN <<[url |-> rest, addDate |-> ""]>>
        ELSE <<>>

\* processedUrls: the entries of the lines, in line order, without the nulls
RECURSIVE handleSubmit(_)
handleSubmit(text) ==
    IF text = <<>> THEN <<>>
    ELSE NormalizeLine(Head(text)) \o handleSubmit(Tail(text))

UrlBBare == <<"https://", "b.example">>
\* <DT><A HREF="https://b.example" ADD_DATE="1700000000">Title</A>
NetscapeLine ==
    <<"<DT>", "<A", " HREF=\"">> \o UrlBBare
        \o <<Quote, " ADD_DATE=\"", "1700000000", Quote, ">", "Title", "</A>">>

\* lines with what the rules should make of each of them
LineCases ==
    { [line |-> NetscapeLine,
       entries |-> <<[url |-> UrlBBare, addDate |-> "2023-11-14T22:13:20.000Z"]>>],
      [line |-> <<Blank, "<a", " href=\"">> \o UrlC
                    \o <<Quote, " add_date=\"", "86399", Quote, ">", "</A>", Blank>>,
       entries |-> <<[url |-> UrlC, addDate |-> "1970-01-01T23:59:59.000Z"]>>],
      [line |-> <<"<DT>", "<A", " HREF=\"">> \o UrlD \o <<Quote, ">", "Title", "</A>">>,
       entries |-> <<[url |-> UrlD, addDate |-> ""]>>],
      \* the date is in another tag of the line
      [line |-> <<"<A", " HREF=\"">> \o UrlD
                    \o <<Quote, ">", "</A>", "<A", " ADD_DATE=\"", "0", Quote, ">">>,
       entries |-> <<[url |-> UrlD, addDate |-> ""]>>],
      \* the date comes before the href
      [line |-> <<"<A", " ADD_DATE=\"", "0", Quote, " HREF=\"">> \o UrlE \o <<Quote, ">">>,
       entries |-> <<>>],
      [line |-> <<"<H1>", "Title">>, entries |-> <<>>],
      [line |-> <<Blank, "<DT>">>, entries |-> <<>>],
      [line |-> <<>>, entries |-> <<>>],
      [line |-> <<Blank, Blank>>, entries |-> <<>>],
      [line |-> <<"3. ">> \o UrlA, entries |-> <<[url |-> UrlA, addDate |-> ""]>>],
      [line |-> <<"2) ", "- ">> \o UrlB \o <<Blank>>,
       entries |-> <<[url |-> UrlB, addDate |-> ""]>>],
      [line |-> <<"* ">> \o UrlAUtm, entries |-> <<[url |-> UrlAUtm, addDate |-> ""]>>] }

\* the texts of one line, and of two lines that give an entry each or of
\* which one gives none
PairCases ==
    { c \in LineCases : c.line = <<Blank, Blank>> \/ c.line = NetscapeLine
                          \/ (c.entries # <<>> /\ c.entries[1].url \in {UrlA, UrlAUtm, UrlD}) }
CaseTexts == { <<c>> : c \in LineCases } \cup { <<c, d>> : c, d \in PairCases }
RECURSIVE TextOf(_)
TextOf(cases) ==
    IF cases = <<>> THEN <<>> ELSE <<Head(cases).line>> \o TextOf(Tail(cases))
RECURSIVE EntriesOf(_)
EntriesOf(cases) ==
    IF cases = <<>> THEN <<>> ELSE Head(cases).entries \o EntriesOf(Tail(cases))

NormalizeOutcomes(urls) == { ArrayOf(Echo(urls, LongSummary)), Throws(ErrKeyInvalid) }

\* processedUrls of every text, worked out once
ProcessedUrls == [cases \in CaseTexts |-> handleSubmit(TextOf(cases))]

\* the form is submitted: onProcess(processedUrls)
Submit(cases, cap) == ProcessUrls(ProcessedUrls[cases], cap)

NextNormalize ==
    \/ \E cases \in CaseTexts : Submit(cases, MaxNormalizeRecords)
    \/ \E outcome \in NormalizeOutcomes(RunUrls) : RunGenerateResponds(outcome)

SpecNormalize == Init /\ [][NextNormalize]_vars

(***************************************************************************)
(* Edits beside calls in flight: one URL is imported at a time, and the    *)
(* user edits titles, adds keywords to one record or to the selection, and *)
(* deletes, while the call of an import is outstanding and after it.       *)
(***************************************************************************)
EditInputs == { <<Entry(UrlA)>>, <<Entry(UrlB)>> }
EditOutcomes(urls) == { ArrayOf(Echo(urls, LongSummary)), BadJson }

EditTitle(id) ==
    /\ userOps < MaxEditOps
    /\ id \in Ids(bookmarks)
    /\ TitleEditable(ById(bookmarks, id))
    /\ handleTitleUpdate(id, EditedTitle)
    /\ userOps' = userOps + 1

EditDelete(id) ==
    /\ userOps < MaxEditOps
    /\ id \in Ids(bookmarks)
    /\ handleDeleteBookmark(id)
    /\ userOps' = userOps + 1

NextEdits ==
    \/ \E urlData \in EditInputs : ProcessUrls(urlData, MaxEditRecords)
    \/ \E outcome \in EditOutcomes(RunUrls) : RunGenerateResponds(outcome)
    \/ RunBackoffElapsed
    \/ \E id \in Ids(bookmarks) : EditTitle(id)
    \/ \E id \in Ids(bookmarks) : KeywordAdd(id, "ml", MaxEditOps)
    \/ \E id \in Ids(bookmarks) : ToggleSelect(id, MaxEditOps)
    \/ BulkAddKeyword("ml", MaxEditOps)
    \/ \E id \in Ids(bookmarks) : EditDelete(id)

SpecEdits == Init /\ [][NextEdits]_vars

NextClient ==
    \/ \E urls \in ClientInputs : ClientInvoke(urls)
    \/ \E outcome \in ClientOutcomes(call.urls) : ClientGenerateResponds(outcome)
    \/ ClientBackoffElapsed

SpecClient == Init /\ [][NextClient]_vars


(***************************************************************************)
(* Claims.                                                                 *)
(***************************************************************************)
Terminal == {"done", "warning", "error"}

\* the status of the record with this id before and after a step
StatusOf(bs, id) == ById(bs, id).status
Surviving == Ids(bookmarks) \cap Ids(bookmarks')

\* a generative call's outcome that the catch block classifies as terminal
IsAuthOutcome(outcome) == outcome.kind = "throws" /\ IsAuthError(outcome.error)
\* one it classifies as rate-limited
IsRateOutcome(outcome) ==
    outcome.kind = "throws" /\ IsRateLimit(outcome.error) /\ ~IsAuthError(outcome.error)

\* generateBookmarksBatch invocations in flight, their backoff waits included
InFlightCalls == (IF run.pc = "call" THEN 1 ELSE 0) + Len(retries)

\* C1: in every reachable state at most one enrichment call
\* (generateBookmarksBatch invocation, with its retry/backoff waits) is in
\* flight, across an import run and any number of user retries.
C1_AtMostOneCallInFlight == InFlightCalls <= 1

\* C2: once an import run has ended on the terminal auth error, no record the
\* run admitted is left in status processing, neither of the failing chunk
\* nor of the chunks not yet started.
C2_NoProcessingAfterAuthAbort ==
    run.end = "aborted" =>
        \A k \in 1..Len(bookmarks) :
            bookmarks[k].id \in Ids(run.newEntries) => bookmarks[k].status # "processing"

\* C3: when a call of the import run raises the terminal auth error, the run
\* stops there: it is no longer waiting for a call or a delay, it has made no
\* call for the chunks after the failing one, the banner is set and the
\* loading flag cleared; and the step that aborts the run changes no record
\* that already had a terminal status.
C3_AuthAbortHaltsRun ==
    /\ [](run.end = "aborted" =>
            /\ run.pc = "idle"
            /\ run.calls = (run.i \div BATCH_SIZE) + 1
            /\ error = ApiKeyBanner
            /\ isLoading = FALSE)
    /\ [][\A outcome \in AppOutcomes(RunUrls) :
            (IsAuthOutcome(outcome) /\ RunGenerateResponds(outcome)) =>
                /\ run'.end = "aborted"
                /\ run'.calls = run.calls
                /\ Len(bookmarks') = Len(bookmarks)
                /\ \A k \in 1..Len(bookmarks) :
                      bookmarks[k].status \in Terminal => bookmarks'[k] = bookmarks[k]]_vars

\* an auth error aborted the run at its first chunk with a second chunk that
\* is never called
C3_Witness ==
    /\ apiKeySet
    /\ run.end = "aborted"
    /\ run.calls = 1
    /\ BATCH_SIZE < Len(run.newEntries)

OutcomeApplied ==
    \/ \E outcome \in AppOutcomes(RunUrls) : RunGenerateResponds(outcome)
    \/ \E k \in 1..Len(retries) :
          \E outcome \in AppOutcomes(retries[k].call.urls) : RetryGenerateResponds(k, outcome)
    \/ \E id \in Ids(bookmarks) : ~apiKeySet /\ RetryBookmark(id)

C5_UniqueUrlAmongNonError ==
    \A j, k \in 1..Len(bookmarks) :
        (j # k /\ bookmarks[j].status # "error" /\ bookmarks[k].status # "error")
            => bookmarks[j].url # bookmarks[k].url

\* C6: an import creates no record whose URL equals, in any letter case, the
\* URL of a record that existed before in a status other than error, and no
\* two records with the same URL.
C6_AdmissionDedupAnyCase ==
    [][\A k \in (Len(bookmarks) + 1)..Len(bookmarks') :
          /\ \A j \in 1..Len(bookmarks) :
                bookmarks[j].status # "error" =>
                    toLowerCase(bookmarks[j].url) # toLowerCase(bookmarks'[k].url)
          /\ \A j \in (Len(bookmarks) + 1)..Len(bookmarks') :
                j # k => bookmarks'[j].url # bookmarks'[k].url]_vars


\* C7: a successful generateBookmarksBatch returns exactly one result per
\* input URL, the i-th carrying the i-th input URL, whatever array the
\* backend answered with.
C7_OneResultPerUrlInOrder ==
    call.pc = "returned" =>
        /\ Len(call.results) = Len(call.urls)
        /\ \A i \in 1..Len(call.urls) : call.results[i].url = call.urls[i]

\* a call for three URLs returned on a response that answers fewer of them
C7_Witness ==
    /\ call.pc = "returned"
    /\ Len(call.urls) = 3
    /\ hist # <<>>
    /\ Len(hist[Len(hist)].items) < Len(call.urls)

\* generative calls the observed invocation has made so far
GenerativeCalls == Len(hist) + (IF call.pc = "gen" THEN 1 ELSE 0)

\* C8: when every generative call is answered with a rate-limit error, the
\* invocation is still going until it has made MAX_RETRIES + 1 calls, and
\* then it raises the error the last call was answered with.
C8_RetryCeiling ==
    (hist # <<>> /\ \A k \in 1..Len(hist) : IsRateOutcome(hist[k])) =>
        IF Len(hist) <= MAX_RETRIES
        THEN call.pc \in {"gen", "backoff"} /\ GenerativeCalls <= MAX_RETRIES + 1
        ELSE /\ Len(hist) = MAX_RETRIES + 1
             /\ call.pc = "thrown"
             /\ call.error = hist[Len(hist)].error

C8_Witness ==
    /\ call.pc = "thrown"
    /\ Len(hist) = MAX_RETRIES + 1
    /\ \A k \in 1..Len(hist) : IsRateOutcome(hist[k])

\* C9: a credential-invalid/not-found error on any attempt ends the
\* invocation there with ApiKeyError: it is the last generative call and no
\* backoff wait follows, also when the error carries a rate-limit signal.
C9_AuthErrorRaisesAtOnce ==
    \A k \in 1..Len(hist) :
        IsAuthOutcome(hist[k]) =>
            /\ k = Len(hist)
            /\ call.pc = "thrown"
            /\ call.error = ApiKeyError(MsgKeyExpired)

\* the credential error came with status 429 on the second attempt
C9_Witness ==
    /\ Len(hist) = 2
    /\ IsRateOutcome(hist[1])
    /\ hist[2] = Throws(ErrAuthAndRate)
    /\ call.pc = "thrown"

\* what the run's call ends with on this outcome
RunCallAfter(outcome) == ClientAttempt(run.call, outcome)

\* C10: when a chunk's call fails with an error other than the auth error
\* (which it does only after the retry ceiling), the records of that chunk,
\* and no others, get status error with the error's message as summary, and
\* the run goes on: it waits for the inter-chunk delay when chunks remain,
\* after which it calls the next chunk, and ends normally otherwise.
C10_ChunkFailureIsPerRecord ==
    /\ [][\A outcome \in AppOutcomes(RunUrls) :
            ( /\ run.pc = "call" /\ run.call.pc = "gen"
              /\ RunCallAfter(outcome).pc = "thrown"
              /\ RunCallAfter(outcome).error.name # "ApiKeyError"
              /\ RunGenerateResponds(outcome) ) =>
                /\ run.call.attempt = MAX_RETRIES
                /\ Len(bookmarks') = Len(bookmarks)
                /\ \A k \in 1..Len(bookmarks) :
                      IF bookmarks[k].id \in ChunkIds(run.newEntries, run.i)
                      THEN /\ bookmarks'[k].status = "error"
                           /\ bookmarks'[k].summary = RunCallAfter(outcome).error.message
                           /\ bookmarks'[k].id = bookmarks[k].id
                           /\ bookmarks'[k].url = bookmarks[k].url
                      ELSE bookmarks'[k] = bookmarks[k]
                /\ error' = error
                /\ IF run.i + BATCH_SIZE < Len(run.newEntries)
                   THEN run'.pc = "delay" /\ isLoading' = isLoading
                   ELSE run'.pc = "idle" /\ run'.end = "completed" /\ isLoading' = FALSE]_vars
    /\ [][(run.pc = "delay" /\ run' # run) =>
            /\ run'.pc = "call"
            /\ run'.i = run.i + BATCH_SIZE
            /\ run'.calls = run.calls + 1]_vars

\* the first chunk failed, its records are in error, and the run has gone on
\* to enrich a record of the second chunk
C10_Witness ==
    /\ Len(run.log) = 2
    /\ run.log[1].kind = "failed"
    /\ run.log[2].kind = "ok"
    /\ \E j, k \in 1..Len(bookmarks) :
          /\ bookmarks[j].id \in ChunkIds(run.newEntries, 0)
          /\ bookmarks[j].status = "error"
          /\ bookmarks[j].summary = MsgExhausted
          /\ bookmarks[k].id \in ChunkIds(run.newEntries, BATCH_SIZE)
          /\ bookmarks[k].status = "done"

\* C11: whenever the result of an enrichment call is merged into a record,
\* by the import run or by a retry, the record becomes warning when its new
\* summary is empty or shorter than 10 characters and done otherwise.
C11_ShortSummaryIsWarning ==
    [][\A id \in Surviving :
          ( /\ OutcomeApplied
            /\ ById(bookmarks', id) # ById(bookmarks, id)
            /\ StatusOf(bookmarks', id) # "error" ) =>
              StatusOf(bookmarks', id) =
                  IF \/ ById(bookmarks', id).summary = ""
                     \/ Len(ById(bookmarks', id).summary) < 10
                  THEN "warning" ELSE "done"]_vars

\* one record took a nine-character summary and is in warning, another took
\* a long one and is done
C11_Witness ==
    \E j, k \in 1..Len(bookmarks) :
        /\ bookmarks[j].status = "warning"
        /\ bookmarks[j].summary = ShortSummary
        /\ Len(ShortSummary) = 9
        /\ bookmarks[k].status = "done"
        /\ bookmarks[k].summary = LongSummary

\* C12: when the backend answers the single input URL with a matching object
\* whose summary is the empty string, the invocation returns a result whose
\* summary is the empty string, which puts the record it is merged into in
\* status warning.
C12_EmptySummaryKept ==
    ( /\ call.pc = "returned"
      /\ Len(call.urls) = 1
      /\ hist # <<>>
      /\ hist[Len(hist)].kind = "array"
      /\ FindItem(hist[Len(hist)].items, call.urls[1]) # 0
      /\ hist[Len(hist)].items[FindItem(hist[Len(hist)].items, call.urls[1])].summary = "" ) =>
        /\ call.results[1].summary = ""
        /\ StatusFor(call.results[1].summary) = "warning"

\* C13: a retry of a record in status error re-arms the record (queued, or
\* processing where the retry starts the call at once) with the prior error
\* text cleared from its summary, and when the retry's call then succeeds
\* with an informative summary the record ends in done.
C13_RetryClearsErrorText ==
    /\ [][\A id \in Ids(bookmarks) :
            ( /\ apiKeySet
              /\ StatusOf(bookmarks, id) = "error"
              /\ RetryBookmark(id) ) =>
                /\ StatusOf(bookmarks', id) \in {"queued", "processing"}
                /\ ById(bookmarks', id).summary = ""]_vars
    /\ [][\A k \in 1..Len(retries) :
            ( /\ retries[k].id \in Ids(bookmarks)
              /\ RetryGenerateResponds(k, ArrayOf(Echo(retries[k].call.urls, LongSummary))) ) =>
                StatusOf(bookmarks', retries[k].id) = "done"]_vars

\* the records the k-th waiting retry and the run's call are for
CallGone == run.pc = "call" /\ ChunkIds(run.newEntries, run.i) \ Ids(bookmarks) # {}
RetryGone(k) == retries[k].id \notin Ids(bookmarks)

\* C14: when a record was deleted (or the collection cleared) while its call
\* was in flight, the step that applies the call's success or failure
\* re-creates no record, does not let the collection grow and modifies no
\* record other than those the call was made for.
C14_DeletedRecordIsNoOp ==
    /\ [][(CallGone /\ (\E outcome \in AppOutcomes(RunUrls) : RunGenerateResponds(outcome))) =>
            /\ Len(bookmarks') = Len(bookmarks)
            /\ \A k \in 1..Len(bookmarks) :
                  /\ bookmarks'[k].id = bookmarks[k].id
                  /\ bookmarks[k].id \notin ChunkIds(run.newEntries, run.i) =>
                        bookmarks'[k] = bookmarks[k]]_vars
    /\ [][\A k \in 1..Len(retries) :
            ( /\ RetryGone(k)
              /\ \E outcome \in AppOutcomes(retries[k].call.urls) :
                    RetryGenerateResponds(k, outcome) ) =>
                bookmarks' = bookmarks]_vars

\* C15: in every reachable state the keywords of every record hold no empty
\* string and no two entries that are equal up to letter case.
C15_KeywordsCleanAndUnique ==
    \A k \in 1..Len(bookmarks) :
        LET keywords == bookmarks[k].keywords
        IN  /\ \A i \in 1..Len(keywords) : keywords[i] # ""
            /\ \A i, j \in 1..Len(keywords) :
                  i # j => LowerKw(keywords[i]) # LowerKw(keywords[j])

\* the ids of the records a stored item holds
StoredIds(item) == IF item.kind = "array" THEN Ids(item.value) ELSE {}

\* C16: once the page is up, the array stored under the bookmarks key equals
\* the in-memory collection after every step that changes the collection;
\* and a step takes a record out of what is stored only when it is a user's
\* delete or clear.
C16_StoredFollowsCollection ==
    /\ [](phase = Ready => stored = stringify(bookmarks))
    /\ [][(StoredIds(stored) \ StoredIds(stored') # {}) =>
            \/ \E id \in Ids(bookmarks) : DeleteBookmark(id)
            \/ ClearAll]_vars

\* C17: records loaded from storage have an id, a status and a createdAt,
\* whether or not they were stored with them.
C17_LoadedRecordsComplete ==
    phase = Ready =>
        \A k \in 1..Len(bookmarks) :
            /\ bookmarks[k].id # UndefinedId
            /\ bookmarks[k].status # Undefined
            /\ bookmarks[k].createdAt # Undefined

(***************************************************************************)
(* C18.  Whatever the context fetches of a batch meet (a rejection, which  *)
(* is also how a timeout shows, a status that is not a success, a body     *)
(* that cannot be parsed or lacks what is looked for, no relay, no X key), *)
(* the prefetch raises nothing, yields null for every URL none of whose    *)
(* fetches succeeded, and is followed by the generative call for the whole *)
(* batch.                                                                  *)
(***************************************************************************)
FetchFailed(f) == f.api # "ok" /\ f.oembed # "ok" /\ f.proxy # "ok"

C19_StripIdempotent ==
    /\ stripUtmParams(stripUtmParams(urlString)) = stripUtmParams(urlString)
    /\ \A k \in 1..Len(stripped) :
            stripped[k] = stripUtmParams(urlString)

\* a URL in upper case with the prefix in its path and in two keys has been
\* stripped twice: the first pass changed it and left the path alone
C19_Witness ==
    /\ urlString = <<"HTTPS://", "A.EXAMPLE", "/", "utm_page",
                      "?", "utm_source=x", "utm_medium=y">>
    /\ Len(stripped) = 2
    /\ stripped[1] = <<"https://", "a.example", "/", "utm_page">>

(***************************************************************************)
(* C20.  Importing the two lines https://a.example/?utm_source=x and       *)
(* https://a.example/ into an empty store creates exactly one record, with *)
(* URL https://a.example/, in status queued, with a placeholder title and  *)
(* an empty summary.                                                       *)
(***************************************************************************)
TwoLineImport == <<Entry(UrlAUtm), Entry(UrlA)>>

ExpectedEntries(cases) == UniqueBatch(ExistingUrls(bookmarks), EntriesOf(cases))

EqualsAnyCase(r, originalUrl) ==
    r.url # <<>> /\ toLowerCase(r.url) = toLowerCase(originalUrl)
ContainsEitherWay(r, originalUrl) ==
    /\ r.url # <<>>
    /\ \/ includes(toLowerCase(originalUrl), toLowerCase(r.url))
       \/ includes(toLowerCase(r.url), toLowerCase(originalUrl))

\* the least index of items at which one of the two relations holds, 0 for none
FirstEqual(items, originalUrl) ==
    LET is == {i \in 1..Len(items) : EqualsAnyCase(items[i], originalUrl)}
    IN  IF is = {} THEN 0 ELSE CHOOSE i \in is : \A j \in is : i <= j
FirstContaining(items, originalUrl) ==
    LET is == {i \in 1..Len(items) : ContainsEitherWay(items[i], originalUrl)}
    IN  IF is = {} THEN 0 ELSE CHOOSE i \in is : \A j \in is : i <= j
StatedItem(items, originalUrl) ==
    IF FirstEqual(items, originalUrl) # 0 THEN FirstEqual(items, originalUrl)
    ELSE FirstContaining(items, originalUrl)

C22_ExactThenContainment ==
    (call.pc = "returned" /\ hist # <<>>) =>
        \A i \in 1..Len(call.urls) :
            LET items == hist[Len(hist)].items
                f == StatedItem(items, call.urls[i])
            IN  IF f = 0
                THEN /\ call.results[i].title = TitleFallback(call.urls[i])
                     /\ call.results[i].summary = SummaryFallback
                     /\ call.results[i].keywords = <<>>
                     /\ call.results[i].publicationDate = NoDate
                ELSE /\ items[f].title # "" => call.results[i].title = items[f].title
                     /\ call.results[i].keywords = items[f].keywords

(***************************************************************************)
(* C23.  Before every further attempt the wait after a rate-limit error,   *)
(* INITIAL_BACKOFF_MS * 2.5^attempt, is longer than the wait after any     *)
(* other retryable error, and it grows with the attempt number.            *)
(***************************************************************************)
C23_RateLimitWaitsLonger ==
    call.pc = "backoff" =>
        /\ hist # <<>>
        /\ call.attempt = Len(hist) - 1
        /\ call.attempt < MAX_RETRIES
        /\ IF IsRateOutcome(hist[Len(hist)])
           THEN /\ call.wait = RateLimitWait(call.attempt)
                /\ call.wait > TRANSIENT_DELAY_MS
                /\ \A earlier \in 0..(call.attempt - 1) :
                        RateLimitWait(earlier) < call.wait
           ELSE call.wait = TRANSIENT_DELAY_MS

\* the second call was answered with a rate-limit error after the first was:
\* the invocation waits 6250 ms where it waited 2500 ms before
C23_Witness ==
    /\ call.pc = "backoff"
    /\ call.attempt = 1
    /\ Len(hist) = 2
    /\ IsRateOutcome(hist[1]) /\ IsRateOutcome(hist[2])
    /\ call.wait = 6250

(***************************************************************************)
(* C24.  Whatever mix of failures other than a credential error the        *)
(* generative calls of an invocation are answered with (rate limits, empty *)
(* responses, responses that are not JSON or not an array, other errors),  *)
(* each is retried, the invocation makes at most MAX_RETRIES + 1 calls,    *)
(* and after that many failures it has ended by raising.                   *)
(***************************************************************************)
IsRetryable(outcome) == outcome.kind # "array" /\ ~IsAuthOutcome(outcome)

C24_BoundedRetries ==
    /\ GenerativeCalls <= MAX_RETRIES + 1
    /\ (hist # <<>> /\ \A k \in 1..Len(hist) : IsRetryable(hist[k])) =>
            IF Len(hist) <= MAX_RETRIES
            THEN /\ call.pc \in {"gen", "backoff"}
                 /\ call.attempt + (IF call.pc = "gen" THEN 0 ELSE 1) = Len(hist)
            ELSE /\ call.pc = "thrown"
                 /\ call.error = RaisedInTry(hist[Len(hist)])

\* a rate limit, a response that is not JSON and an empty response, one
\* after the other: the invocation has raised what the last one raised
C24_Witness ==
    /\ Len(hist) = MAX_RETRIES + 1
    /\ hist[1] = Throws(ErrRateLimit)
    /\ hist[2] = BadJson
    /\ hist[3] = EmptyText("STOP")
    /\ call.pc = "thrown"
    /\ call.error = Error(MsgEmpty)

(***************************************************************************)
(* C25.  Within an import run the call for the next chunk starts only      *)
(* after the call for the chunk before it has completed, with its results  *)
(* or with the failure of its records, and the delay between chunks has    *)
(* then elapsed; after the last chunk the loading flag is cleared without  *)
(* a delay.                                                                *)
(***************************************************************************)
C25_ChunksInSequence ==
    /\ [](run.pc = "delay" =>
            /\ isLoading
            /\ run.i + BATCH_SIZE < Len(run.newEntries)
            /\ Len(run.log) = run.calls
            /\ run.log[Len(run.log)].kind \in {"ok", "failed"})
    /\ [](run.pc = "call" => Len(run.log) = run.calls - 1 /\ isLoading)
    /\ [][(run'.calls = run.calls + 1 /\ run.calls >= 1 /\ run'.newEntries = run.newEntries
              /\ run.pc # "idle")
            => /\ RunDelayElapsed
               /\ run.pc = "delay"
               /\ run'.i = run.i + BATCH_SIZE]_vars
    /\ [][(run.pc = "call" /\ run'.pc = "idle" /\ run'.end = "completed")
            => /\ ~(run.i + BATCH_SIZE < Len(run.newEntries))
               /\ ~isLoading']_vars

\* the call of the second chunk is out after the records of the first chunk
\* failed and the delay elapsed
C25_Witness ==
    /\ run.pc = "call"
    /\ run.calls = 2
    /\ run.i = BATCH_SIZE
    /\ Len(run.log) = 1
    /\ run.log[1].kind = "failed"
    /\ isLoading

(***************************************************************************)
(* C26.  Updates to different records do not overwrite each other: an      *)
(* edit, a delete or a bulk keyword add on one record, made while the call *)
(* for another record is in flight, is still there after that call's       *)
(* result or failure has been applied, and the result applied to the other *)
(* record is not undone by the edit.                                       *)
(***************************************************************************)
\* the record with this id is in the next state exactly as it is now
Untouched(id) == id \in Ids(bookmarks') /\ ById(bookmarks', id) = ById(bookmarks, id)
\* the collection without the record with this id
Without(bs, id) == SelectSeq(bs, LAMBDA b : b.id # id)

SentBy(k, n) ==
    {j \in 1..n : (k - 1) * BATCH_SIZE < j /\ j <= k * BATCH_SIZE}

C27_OneCallPerChunk ==
    /\ [][nextId' # nextId =>
            /\ Len(run'.newEntries) = nextId' - nextId
            /\ \A j \in 1..Len(run'.newEntries) :
                  /\ run'.newEntries[j].id = nextId + j - 1
                  /\ bookmarks'[Len(bookmarks) + j].id = nextId + j - 1
                  /\ bookmarks'[Len(bookmarks) + j].url = run'.newEntries[j].url]_vars
    /\ [][(run'.calls # run.calls /\ run'.pc = "call") =>
            LET n == Len(run'.newEntries)
                sent == SentBy(run'.calls, n)
            IN  /\ run'.calls = (IF nextId' # nextId THEN 1 ELSE run.calls + 1)
                /\ sent # {}
                /\ Len(run'.call.urls) = Cardinality(sent)
                /\ Len(run'.call.urls) <= BATCH_SIZE
                /\ \A j \in sent :
                      run'.call.urls[j - (run'.calls - 1) * BATCH_SIZE]
                          = run'.newEntries[j].url]_vars
    /\ [][(run'.calls = run.calls /\ run.pc # "idle") =>
            run'.newEntries = run.newEntries]_vars
    /\ [](run.end = "completed" =>
            /\ Len(run.log) = run.calls
            /\ \A j \in 1..Len(run.newEntries) :
                  \E k \in 1..run.calls : j \in SentBy(k, Len(run.newEntries)))

\* a run of six records has completed with two invocations
C27_Witness ==
    /\ run.end = "completed"
    /\ Len(run.newEntries) = BATCH_SIZE + 1
    /\ run.calls = 2
    /\ Len(run.log) = 2

(***************************************************************************)
(* C28.  The result of an enrichment call is merged only onto the record   *)
(* the call was issued for: with a retry of one record and the chunk of an *)
(* import run holding another record of the same URL in flight together,   *)
(* the chunk's result goes to the record of the chunk and not to the       *)
(* retried one, and neither is left in processing once both calls are      *)
(* over.                                                                   *)
(***************************************************************************)
\* the records the outstanding call of the run was issued for
RunRecords == ChunkIds(run.newEntries, run.i)

C28_ResultToOwnRecord ==
    /\ [][(run.pc = "call" /\ run' # run) =>
            \A id \in Ids(bookmarks) \ RunRecords : Untouched(id)]_vars
    /\ [][\A k \in 1..Len(retries) :
            (\E outcome \in AppOutcomes(retries[k].call.urls) :
                    RetryGenerateResponds(k, outcome))
                => \A id \in Ids(bookmarks) \ {retries[k].id} : Untouched(id)]_vars
    /\ [](run.end = "completed" =>
            \A k \in 1..Len(bookmarks) :
                (/\ bookmarks[k].id \in Ids(run.newEntries)
                 /\ \A j \in 1..Len(retries) : retries[j].id # bookmarks[k].id)
                    => bookmarks[k].status # "processing")

(***************************************************************************)
(* C29.  Whenever no import run and no retry is active, no record is in    *)
(* processing: a record that enters processing is settled (or deleted)     *)
(* once its call returns or raises, and a collection loaded from storage   *)
(* after the page was closed with calls in flight holds no record left in  *)
(* processing.                                                             *)
(***************************************************************************)
C29_NoOrphanProcessing ==
    (phase = Ready /\ run.pc = "idle" /\ retries = <<>>) =>
        \A k \in 1..Len(bookmarks) : bookmarks[k].status # "processing"

(***************************************************************************)
(* C30.  Within the result of one generateBookmarksBatch invocation an     *)
(* object of the response is attributed to at most one input URL: no two   *)
(* different input URLs of the batch get the title, summary and keywords   *)
(* of the same object.                                                     *)
(***************************************************************************)
C30_ObjectUsedOnce ==
    (call.pc = "returned" /\ hist # <<>>) =>
        \A i, j \in 1..Len(call.urls) :
            (i # j /\ call.urls[i] # call.urls[j]
                /\ FindItem(hist[Len(hist)].items, call.urls[i]) # 0)
              => FindItem(hist[Len(hist)].items, call.urls[i])
                    # FindItem(hist[Len(hist)].items, call.urls[j])

====
